---- MODULE Spec2Model ----
(***************************************************************************)
(* A model of http-file-headers: the Accept-Encoding, Range and           *)
(* If-None-Match parsers, the ETag text, the filesystem probe, the         *)
(* response decision (conditionals and range resolution), the header       *)
(* iterator and the resumable body reader.                                 *)
(*                                                                         *)
(* Byte strings are sequences of one-character strings.  A Rust panic is   *)
(* an explicit outcome of the operator or action in which it happens.      *)
(***************************************************************************)
EXTENDS Integers, Sequences, FiniteSets, TLC

VARIABLES
    ae_pc,        \* AcceptEncodingParser life cycle: "parsing" | "iterating" | "panicked"
    ae_input,     \* how many tokens the headers given to add_header held
    ae_last,      \* the header value last given to add_header
    ae_buf,       \* AcceptEncodingParser.buf : Vec<(Encoding, u16)>
    ae_allow_any, \* AcceptEncodingParser.allow_any
    ae_ordered,   \* AcceptEncoding.ordered : [Encoding; 3]
    it_idx,       \* Iter.slice: how many elements of ordered were consumed
    it_identity,  \* Iter.identity
    it_out,       \* the encodings Iter::next has returned so far
    it_done       \* Iter::next has returned None

aeVars == <<ae_pc, ae_input, ae_last, ae_buf, ae_allow_any, ae_ordered,
            it_idx, it_identity, it_out, it_done>>

VARIABLES
    debug_build,  \* the build checks integer overflow (debug) or wraps (release)
    rg_pc,        \* RangeParser life cycle: "parsing" | "done" | "panicked"
    rg_input,     \* the Range header values of the request
    rg_fed,       \* how many of them were given to add_header
    rg_result,    \* RangeParser.result : Result<Option<Range>, ()>
    rg_slices     \* the slices parse_header merged into the accepted result

rgVars == <<rg_pc, rg_input, rg_fed, rg_result, rg_slices>>

VARIABLES
    cfg,          \* Config, shared by the request
    req,          \* the request: its method and what its headers parse to
    inp,          \* Input, as Input::from_headers built it
    base,         \* the base path given to probe_file (its file name)
    fs,           \* the filesystem under the base path: path -> node
    unlinked,     \* how many files another process has removed so far
    pb_pc,        \* where the request is: "start" | "parsed" | "stat" | "dir" |
                  \*   "open" | "done" | "panicked"
    pb_child,     \* try_dir/try_file: the index file name joined to the base, or ""
    pb_idx,       \* try_dir: how many index_files were probed
    pb_ctype,     \* try_file: the MIME type found for the path
    pb_encs,      \* try_file: TRUE when try_encodings runs, FALSE for a lone try_path
    pb_it,        \* try_encodings: the state of its `for enc in self.encodings()`
    outcome       \* what probe_file returned: Ok(Output) or Err(io::Error)

pbVars == <<cfg, req, inp, base, fs, unlinked, pb_pc, pb_child, pb_idx, pb_ctype,
            pb_encs, pb_it, outcome>>

VARIABLES
    writer,       \* the kind of writer read_chunk is driven with
    fw,           \* FileWrapper: bytes_left and the position of its file
    delivered,    \* the file offsets of the bytes the writer accepted, in order
    last_ret      \* what the last read_chunk call returned

bdVars == <<writer, fw, delivered, last_ret>>

VARIABLES
    et_pc,        \* NoneMatchParser life cycle: "parsing" | "parsed" | "done"
    et_server,    \* the Etag of the file: what Etag::from_metadata returned
    et_input,     \* the If-None-Match header values of the request
    et_fed,       \* how many of them were given to add_header
    et_etags,     \* NoneMatchParser.etags : Vec<Etag>
    et_modified,  \* Input.if_modified of the request
    et_hit,       \* the response is NotModified
    et_sent       \* the text of the ETag header the response carries

etVars == <<et_pc, et_server, et_input, et_fed, et_etags, et_modified, et_hit,
            et_sent>>

VARIABLES
    hi_state,     \* HeaderIter.state
    hi_out,       \* the header names HeaderIter::next has returned so far
    hi_nones      \* how many times HeaderIter::next has returned None

hiVars == <<hi_state, hi_out, hi_nones>>

\* what the actions of one component leave unchanged
notAE == <<rgVars, pbVars, bdVars, etVars, hiVars, debug_build>>
notRG == <<aeVars, pbVars, bdVars, etVars, hiVars>>
notPB == <<aeVars, rgVars, etVars, hiVars>>
notET == <<aeVars, rgVars, pbVars, bdVars, hiVars, debug_build>>

-----------------------------------------------------------------------------
(* Bounds of the model *)

\* the most Accept-Encoding tokens one request carries over all its headers
MaxTokens == 3

\* the largest value of the model's unsigned 64-bit integers (u64::MAX, scaled)
MaxU == 7

\* Range headers name the offsets 0..MaxOff, and MaxU
MaxOff == 2

\* the most slices in one Range header value
MaxSlices == 3

\* files are 0..MaxSize bytes long
MaxSize == 3

\* the length of read_chunk's buffer (65536 in the code, scaled)
BufLen == 2

\* the most files another process removes while a request is probed
MaxUnlinks == 1

\* the most tags one request's If-None-Match headers carry
MaxTags == 2

\* how many times HeaderIter::next is called after it first returned None
MaxNones == 2

-----------------------------------------------------------------------------
(* Byte-string helpers (std: split, trim, starts_with, from_utf8) *)

\* a byte that is not valid UTF-8
BadByte == "xFF"

IsUtf8(s) == \A i \in 1..Len(s) : s[i] # BadByte

RECURSIVE SplitFrom(_, _, _, _)
SplitFrom(s, c, i, cur) ==
    IF i > Len(s) THEN <<cur>>
    ELSE IF s[i] = c THEN <<cur>> \o SplitFrom(s, c, i + 1, <<>>)
    ELSE SplitFrom(s, c, i + 1, Append(cur, s[i]))

\* slice::split(|x| x == c): the pieces between separators, at least one
Split(s, c) == SplitFrom(s, c, 1, <<>>)

RECURSIVE TrimLeft(_)
TrimLeft(s) == IF s # <<>> /\ Head(s) = " " THEN TrimLeft(Tail(s)) ELSE s

RECURSIVE TrimRight(_)
TrimRight(s) ==
    IF s # <<>> /\ s[Len(s)] = " " THEN TrimRight(SubSeq(s, 1, Len(s) - 1)) ELSE s

Trim(s) == TrimRight(TrimLeft(s))

StartsWith(s, p) == Len(s) >= Len(p) /\ SubSeq(s, 1, Len(p)) = p

Digits == <<"0", "1", "2", "3", "4", "5", "6", "7", "8", "9">>

IsDigit(c) == \E d \in 1..10 : Digits[d] = c

DigitVal(c) == (CHOOSE d \in 1..10 : Digits[d] = c) - 1

\* 10u16.pow(n) for the exponents parse_q uses
Pow10(n) == IF n = 0 THEN 1 ELSE IF n = 1 THEN 10 ELSE 100

RECURSIVE SumTo(_, _)
SumTo(f, n) == IF n = 0 THEN 0 ELSE f[n] + SumTo(f, n - 1)

-----------------------------------------------------------------------------
(* accept_encoding.rs *)

Encodings == {"Brotli", "Gzip", "Identity"}

\* derive(PartialOrd, Ord) on enum Encoding: the declaration order
EncOrd(e) == IF e = "Brotli" THEN 0 ELSE IF e = "Gzip" THEN 1 ELSE 2

\* Encoding::suffix
Suffix(e) == IF e = "Identity" THEN "" ELSE IF e = "Gzip" THEN ".gz" ELSE ".br"

QSome(v) == [k |-> "Some", v |-> v]
QNone == [k |-> "None", v |-> 0]
QPanic == [k |-> "Panic", v |-> 0]

Absent == [some |-> FALSE, v |-> <<>>]
Present(s) == [some |-> TRUE, v |-> s]

\* the digits loop of parse_q: qstr[4..] read as thousandths
QDigits(qstr) ==
    LET n == Len(qstr) - 4
    IN  IF \E i \in 1..n : ~IsDigit(qstr[i + 4]) THEN QNone
        ELSE QSome(SumTo([i \in 1..n |-> DigitVal(qstr[i + 4]) * Pow10(3 - i)], n))

\* fn parse_q(val: Option<&[u8]>) -> Option<u16>; indexing past the end panics
parse_q(val) ==
    IF ~val.some THEN QSome(1000)
    ELSE IF ~IsUtf8(val.v) THEN QNone
    ELSE LET qstr == Trim(val.v)
         IN  IF ~(StartsWith(qstr, <<"q", "=">>) /\ Len(qstr) <= 7) THEN QNone
             ELSE IF Len(qstr) < 3 THEN QPanic
             ELSE IF qstr[3] = "1" THEN
                 IF Len(qstr) = 3
                    \/ (qstr[4] = "." /\ \A i \in 5..Len(qstr) : qstr[i] = "0")
                 THEN QSome(1000) ELSE QNone
             ELSE IF qstr[3] = "0" THEN
                 IF Len(qstr) = 3 THEN QSome(0)
                 ELSE IF qstr[4] # "." THEN QNone
                 ELSE QDigits(qstr)
             ELSE QNone

\* the first match of add_chunk: the token's name
EncName(piece) ==
    IF ~IsUtf8(piece) THEN "skip"
    ELSE LET enc == Trim(piece)
         IN  IF enc = <<"i", "d", "e", "n", "t", "i", "t", "y">> THEN "Identity"
             ELSE IF enc = <<"b", "r">> THEN "Brotli"
             ELSE IF enc = <<"g", "z", "i", "p">> THEN "Gzip"
             ELSE IF enc = <<"*">> THEN "any"
             ELSE "skip"

\* AcceptEncodingParser::add_chunk on the parser p = [buf, allow_any, panicked]
add_chunk(p, chunk) ==
    LET piter == Split(chunk, ";")
        enc == EncName(piter[1])
        q == parse_q(IF Len(piter) >= 2 THEN Present(piter[2]) ELSE Absent)
    IN  IF p.panicked \/ enc = "skip" THEN p
        ELSE IF q.k = "Panic" THEN [p EXCEPT !.panicked = TRUE]
        ELSE IF q.k = "None" THEN p
        ELSE IF enc = "any" THEN
            IF q.v = 0 THEN [p EXCEPT !.allow_any = FALSE] ELSE p
        ELSE [p EXCEPT !.buf = Append(@, <<enc, q.v>>)]

RECURSIVE AddChunks(_, _)
AddChunks(p, chunks) ==
    IF chunks = <<>> THEN p ELSE AddChunks(add_chunk(p, Head(chunks)), Tail(chunks))

\* AcceptEncodingParser::add_header
add_header(p, header) == AddChunks(p, Split(header, ","))

\* a comparator that orders by encoding alone
SortsBeforeByName(x, y) == EncOrd(x[1]) < EncOrd(y[1])

\* the comparator of done(): qb.cmp(&qa).then(a.cmp(&b))
SortsBefore(x, y) == x[2] > y[2] \/ (x[2] = y[2] /\ EncOrd(x[1]) < EncOrd(y[1]))

RECURSIVE InsertSorted(_, _)
InsertSorted(s, x) ==
    IF s = <<>> THEN <<x>>
    ELSE IF SortsBefore(x, Head(s)) THEN <<x>> \o s
    ELSE <<Head(s)>> \o InsertSorted(Tail(s), x)

\* Vec::sort_by (stable): equal elements keep their order
RECURSIVE SortBuf(_)
SortBuf(s) ==
    IF s = <<>> THEN <<>>
    ELSE InsertSorted(SortBuf(SubSeq(s, 1, Len(s) - 1)), s[Len(s)])

RECURSIVE FilterNonZero(_)
FilterNonZero(s) ==
    IF s = <<>> THEN <<>>
    ELSE IF Head(s)[2] # 0 THEN <<Head(s)>> \o FilterNonZero(Tail(s))
    ELSE FilterNonZero(Tail(s))

\* AcceptEncodingParser::done: the [Encoding; 3] it returns
done(buf) ==
    LET accepted == FilterNonZero(SortBuf(buf))
    IN  [i \in 1..3 |-> IF i <= Len(accepted) THEN accepted[i][1] ELSE "Identity"]

\* AcceptEncoding::identity
IdentityOnly == [i \in 1..3 |-> "Identity"]

\* slice::Iter::next skipping what Iter::next skips: the index of the element
\* returned from position idx on, or 4 when the slice is exhausted
RECURSIVE NextYield(_, _, _)
NextYield(ordered, idx, identity) ==
    IF idx >= 3 THEN 4
    ELSE IF ordered[idx + 1] = "Identity" /\ identity
         THEN NextYield(ordered, idx + 1, identity)
         ELSE idx + 1

-----------------------------------------------------------------------------
(* Accept-Encoding inputs: header values built from tokens *)

QTexts ==
    { <<>>,
      <<";", "q", "=">>,
      <<";", "q">>,
      <<";", " ", "q", "=", " ">>,
      <<";", "q", "=", "0">>,
      <<";", "q", "=", "0", ".">>,
      <<";", "q", "=", "0", ".", "5">>,
      <<";", "q", "=", "1">>,
      <<";", "q", "=", "1", ".", "0">>,
      <<";", "q", "=", "1", ".", "5">>,
      <<";", "q", "=", "0", ".", "x">>,
      <<";", "q", "=", "2">>,
      <<";", "q", "=", "0", ".", "5", "0", "0", "0">>,
      <<";", "q", "=", BadByte>>,
      <<";", "q", "=", "0", ".", "5", ";", "x">> }

\* q texts used with every encoding name
CommonQTexts ==
    { <<>>, <<";", "q", "=", "0">>, <<";", "q", "=", "0", ".", "5">> }

NameTexts ==
    { <<"b", "r">>, <<"g", "z", "i", "p">>,
      <<"i", "d", "e", "n", "t", "i", "t", "y">>, <<"*">> }

Tokens ==
    { n \o q : n \in NameTexts, q \in CommonQTexts }
    \cup { <<" ", "g", "z", "i", "p", " ">> \o q : q \in QTexts }
    \cup { <<>>, <<"z", "s", "t", "d">>, <<BadByte>> }

\* second tokens of a two-token header value
SecondTokens ==
    { <<"b", "r">>, <<" ", "g", "z", "i", "p">>,
      <<"b", "r", ";", "q", "=", "0", ".", "5">>,
      <<"i", "d", "e", "n", "t", "i", "t", "y">> }

\* the header values offered to add_header, with the number of tokens of each
HeaderValues ==
    { [text |-> t, n |-> 1] : t \in Tokens }
    \cup { [text |-> t \o <<",">> \o u, n |-> 2] : t \in Tokens, u \in SecondTokens }

-----------------------------------------------------------------------------
(* Accept-Encoding state machine *)

AEIdle ==
    /\ ae_pc = "idle" /\ ae_input = 0 /\ ae_last = <<>> /\ ae_buf = <<>> /\ ae_allow_any = TRUE
    /\ ae_ordered = IdentityOnly /\ it_idx = 0 /\ it_identity = FALSE
    /\ it_out = <<>> /\ it_done = FALSE

\* AcceptEncodingParser::new
AEInit ==
    /\ ae_pc = "parsing" /\ ae_input = 0 /\ ae_last = <<>> /\ ae_buf = <<>> /\ ae_allow_any = TRUE
    /\ ae_ordered = IdentityOnly /\ it_idx = 0 /\ it_identity = FALSE
    /\ it_out = <<>> /\ it_done = FALSE

\* parser.add_header(value) for one more header value of the request
AEAddHeader ==
    /\ ae_pc = "parsing"
    /\ \E h \in HeaderValues :
        /\ ae_input + h.n <= MaxTokens
        /\ LET p == add_header([buf |-> ae_buf, allow_any |-> ae_allow_any,
                                panicked |-> FALSE], h.text)
           IN  /\ ae_pc' = IF p.panicked THEN "panicked" ELSE "parsing"
               /\ ae_buf' = p.buf
               /\ ae_allow_any' = p.allow_any
        /\ ae_input' = ae_input + h.n
        /\ ae_last' = h.text
    /\ UNCHANGED <<ae_ordered, it_idx, it_identity, it_out, it_done, notAE>>

\* parser.done() followed by AcceptEncoding::iter()
AEDone ==
    /\ ae_pc = "parsing"
    /\ ae_pc' = "iterating"
    /\ ae_ordered' = done(ae_buf)
    /\ it_idx' = 0 /\ it_identity' = FALSE
    /\ UNCHANGED <<ae_input, ae_last, ae_buf, ae_allow_any, it_out, it_done, notAE>>

\* one call of Iter::next
AEIterNext ==
    /\ ae_pc = "iterating" /\ ~it_done
    /\ LET j == NextYield(ae_ordered, it_idx, it_identity)
       IN  IF j = 4
           THEN /\ it_done' = TRUE /\ it_idx' = 3
                /\ UNCHANGED <<it_identity, it_out>>
           ELSE /\ it_idx' = j
                /\ it_identity' = (it_identity \/ ae_ordered[j] = "Identity")
                /\ it_out' = Append(it_out, ae_ordered[j])
                /\ UNCHANGED it_done
    /\ UNCHANGED <<ae_pc, ae_input, ae_last, ae_buf, ae_allow_any, ae_ordered,
                   notAE>>

AENext == AEAddHeader \/ AEDone \/ AEIterNext

-----------------------------------------------------------------------------
(* range.rs *)

ULimit == MaxU + 1

FromTo(x, y) == [t |-> "FromTo", a |-> x, b |-> y]
AllFrom(x) == [t |-> "AllFrom", a |-> x, b |-> 0]
Last(n) == [t |-> "Last", a |-> n, b |-> 0]

POk(v) == [ok |-> TRUE, v |-> v]
PErr == [ok |-> FALSE, v |-> 0]

RECURSIVE DecimalValue(_, _)
DecimalValue(s, acc) ==
    IF s = <<>> THEN acc ELSE DecimalValue(Tail(s), acc * 10 + DigitVal(Head(s)))

\* str::parse::<u64>: an optional '+', then digits; too large a value is an error
ParseU64(s) ==
    LET d == IF s # <<>> /\ Head(s) = "+" THEN Tail(s) ELSE s
    IN  IF d = <<>> \/ \E i \in 1..Len(d) : ~IsDigit(d[i]) THEN PErr
        ELSE IF DecimalValue(d, 0) > MaxU THEN PErr
        ELSE POk(DecimalValue(d, 0))

\* the index of the first occurrence of c in s, or 0
FirstIndex(s, c) ==
    IF \E i \in 1..Len(s) : s[i] = c
    THEN CHOOSE i \in 1..Len(s) : s[i] = c /\ \A j \in 1..(i - 1) : s[j] # c
    ELSE 0

\* fn parse_slice(slc: &str) -> Result<Slice, ()>
parse_slice(slc) ==
    LET d == FirstIndex(slc, "-")
        x == Trim(SubSeq(slc, 1, d - 1))
        y == Trim(SubSeq(slc, d + 1, Len(slc)))
        px == ParseU64(x)
        py == ParseU64(y)
    IN  IF d = 0 THEN PErr
        ELSE IF x = <<>> /\ y = <<>> THEN PErr
        ELSE IF x = <<>> THEN (IF py.ok THEN POk(Last(py.v)) ELSE PErr)
        ELSE IF y = <<>> THEN (IF px.ok THEN POk(AllFrom(px.v)) ELSE PErr)
        ELSE IF ~px.ok \/ ~py.ok THEN PErr
        ELSE IF px.v > py.v THEN PErr
        ELSE POk(FromTo(px.v, py.v))

MergeOk(s) == [r |-> "true", s |-> s]
MergeNo(s) == [r |-> "false", s |-> s]
MergePanic(s) == [r |-> "panic", s |-> s]

\* y + 1 in u64: wraps in a release build
Inc(y) == (y + 1) % ULimit

\* Slice::merge(&mut self, other) -> bool: the four guarded arms in order;
\* an arm's y + 1 is computed only when the guards before it let it be reached
merge(self, other, checked) ==
    IF self.t # "FromTo" \/ other.t # "FromTo" THEN MergeNo(self)
    ELSE LET x1 == self.a  y1 == self.b  x2 == other.a  y2 == other.b
         IN  IF x1 >= x2 /\ y1 <= y2 THEN MergeOk(self)
             ELSE IF x2 >= x1 /\ y2 <= y1 THEN MergeOk(FromTo(x2, y2))
             ELSE IF x2 >= x1 /\ y1 = MaxU /\ checked THEN MergePanic(self)
             ELSE IF x2 >= x1 /\ x2 <= Inc(y1) THEN MergeOk(FromTo(x1, y2))
             ELSE IF y2 = MaxU /\ checked THEN MergePanic(self)
             ELSE IF Inc(y2) >= x1 /\ x2 < x1 THEN MergeOk(FromTo(x2, y1))
             ELSE MergeNo(self)

\* the result of parse_header: Ok(Range), Err(()) or a panic, with the slices read
HOk(slice, seen) == [r |-> "Ok", s |-> slice, seen |-> seen]
HErr == [r |-> "Err", s |-> Last(0), seen |-> <<>>]
HPanic == [r |-> "Panic", s |-> Last(0), seen |-> <<>>]

\* the loop of parse_header over the remaining items
RECURSIVE MergeItems(_, _, _, _)
MergeItems(acc, seen, items, checked) ==
    IF items = <<>> THEN HOk(acc, seen)
    ELSE LET p == parse_slice(Head(items))
             m == merge(acc, p.v, checked)
         IN  IF ~p.ok THEN HErr
             ELSE IF m.r = "panic" THEN HPanic
             ELSE IF m.r = "false" THEN HErr
             ELSE MergeItems(m.s, Append(seen, p.v), Tail(items), checked)

BytesPrefix == <<"b", "y", "t", "e", "s", "=">>

\* fn parse_header(header: &[u8]) -> Result<Range, ()>
parse_header(header, checked) ==
    IF ~IsUtf8(header) THEN HErr
    ELSE IF ~StartsWith(header, BytesPrefix) THEN HErr
    ELSE LET slices == Split(SubSeq(header, 7, Len(header)), ",")
             first == parse_slice(Head(slices))
         IN  IF ~first.ok THEN HErr
             ELSE MergeItems(first.v, <<first.v>>, Tail(slices), checked)

\* RangeParser.result
ROkNone == [r |-> "OkNone", s |-> Last(0)]
ROkSome(s) == [r |-> "OkSome", s |-> s]
RErr == [r |-> "Err", s |-> Last(0)]

-----------------------------------------------------------------------------
(* Range inputs: header values written from slices *)

\* the decimal text of a one-digit number
NumText(n) == <<Digits[n + 1]>>

Offsets == (0..MaxOff) \cup {MaxU}

SliceTexts ==
    { NumText(p[1]) \o <<"-">> \o NumText(p[2]) :
        p \in { q \in Offsets \X Offsets : q[1] <= q[2] } }
    \cup { <<"-">> \o NumText(1), NumText(1) \o <<"-">>, <<"-">>,
           <<" ">> \o NumText(0) \o <<" ", "-", " ">> \o NumText(1) \o <<" ">> }

RECURSIVE SliceLists(_)
SliceLists(n) ==
    IF n = 0 THEN { <<>> }
    ELSE LET shorter == SliceLists(n - 1)
         IN  shorter \cup { Append(l, t) : l \in { k \in shorter : Len(k) = n - 1 },
                                           t \in SliceTexts }

RECURSIVE JoinComma(_)
JoinComma(l) ==
    IF l = <<>> THEN <<>>
    ELSE IF Len(l) = 1 THEN l[1]
    ELSE l[1] \o <<",">> \o JoinComma(Tail(l))

RangeHeaderValues ==
    { BytesPrefix \o JoinComma(l) : l \in SliceLists(MaxSlices) \ { <<>> } }
    \cup { <<"b", "y", "t", "e", "s">>, <<"l", "i", "n", "e", "s", "=", "0", "-", "1">>,
           BytesPrefix, BytesPrefix \o <<BadByte>>,
           BytesPrefix \o NumText(1), BytesPrefix \o <<"1", "-", "0">>,
           BytesPrefix \o <<"9", "-">>, BytesPrefix \o <<"+", "1", "-", "0", "2">>,
           BytesPrefix \o <<"0", "-", "1", "-", "2">> }

\* what a second Range header of the same request may be
SecondRangeHeaders ==
    { BytesPrefix \o <<"0", "-", "1">>, <<"b", "y", "t", "e", "s">> }

\* the Range header values of one request, in order
RangeRequests ==
    { <<>> } \cup { <<h>> : h \in RangeHeaderValues }
    \cup { <<h, g>> : h \in SecondRangeHeaders \cup { BytesPrefix \o <<"2", "-", "0">> },
                      g \in SecondRangeHeaders }
    \cup { <<h, g, k>> : h \in SecondRangeHeaders, g \in SecondRangeHeaders,
                         k \in SecondRangeHeaders }

-----------------------------------------------------------------------------
(* Range parser state machine *)

RGIdle ==
    /\ rg_pc = "idle" /\ rg_input = <<>> /\ rg_fed = 0
    /\ rg_result = ROkNone /\ rg_slices = <<>>

\* RangeParser::new, for a request with the given Range headers
RGInit ==
    /\ rg_pc = "parsing" /\ rg_input \in RangeRequests /\ rg_fed = 0
    /\ rg_result = ROkNone /\ rg_slices = <<>>
    /\ debug_build \in BOOLEAN

\* an add_header where the last Range header replaces what came before
AddHeaderLastWins(result, slices, header, checked) ==
    LET h == parse_header(header, checked)
    IN  [panic |-> h.r = "Panic",
         result |-> IF h.r = "Ok" THEN ROkSome(h.s)
                    ELSE IF h.r = "Err" THEN RErr ELSE result,
         slices |-> h.seen]

\* RangeParser::add_header(header): the parser's result, the slices read, and
\* whether parse_header panicked
RangeParser_add_header(result, slices, header, checked) ==
    IF result.r = "Err"
    THEN [panic |-> FALSE, result |-> result, slices |-> slices]
    ELSE IF result.r = "OkSome"
    THEN [panic |-> FALSE, result |-> RErr, slices |-> <<>>]
    ELSE LET h == parse_header(header, checked)
         IN  [panic |-> h.r = "Panic",
              result |-> IF h.r = "Ok" THEN ROkSome(h.s)
                         ELSE IF h.r = "Err" THEN RErr ELSE result,
              slices |-> h.seen]

\* RangeParser::add_header with the next Range header of the request
RGAddHeader ==
    /\ rg_pc = "parsing" /\ rg_fed < Len(rg_input)
    /\ rg_fed' = rg_fed + 1
    /\ LET a == RangeParser_add_header(rg_result, rg_slices, rg_input[rg_fed + 1],
                                       debug_build)
       IN  /\ rg_pc' = IF a.panic THEN "panicked" ELSE "parsing"
           /\ rg_result' = a.result
           /\ rg_slices' = a.slices
    /\ UNCHANGED <<rg_input, debug_build, notRG>>

\* RangeParser::done, once every Range header was added
RGDone ==
    /\ rg_pc = "parsing" /\ rg_fed = Len(rg_input)
    /\ rg_pc' = "done"
    /\ UNCHANGED <<rg_input, rg_fed, rg_result, rg_slices, debug_build, notRG>>

RGNext == RGAddHeader \/ RGDone

-----------------------------------------------------------------------------
(* output.rs: the response decision *)

\* const MIN_DATE: 1990-01-01 as seconds since the epoch
MIN_DATE == 631152000

\* Option<T>: the payload is a sequence of at most one value
None == [some |-> FALSE, v |-> <<>>]
Some(x) == [some |-> TRUE, v |-> <<x>>]

\* struct ContentRange
ContentRange(start, end, size) == [start |-> start, end |-> end, file_size |-> size]

\* std::fs::Metadata of a regular file
Meta(size, mtime, ino) == [size |-> size, mtime |-> mtime, ino |-> ino]

\* Etag::from_metadata: a digest of the metadata, taken as injective
EtagOf(meta) == <<meta.size, meta.mtime, meta.ino>>

\* a - b in u64
SubU(a, b) == (a - b + ULimit) % ULimit

\* u64::saturating_add(1)
SatInc(a) == IF a = MaxU THEN MaxU ELSE a + 1

\* u64::saturating_sub(1)
SatDec(a) == IF a = 0 THEN 0 ELSE a - 1

Min(a, b) == IF a <= b THEN a ELSE b

RROk(range, clen) == [r |-> "Ok", range |-> range, clen |-> clen]
RRInvalid == [r |-> "InvalidRange", range |-> None, clen |-> 0]
RRPanic == [r |-> "Panic", range |-> None, clen |-> 0]

\* the ContentRange resolve_range computes for a slice, None for InvalidRange
SliceRange(slice, size) ==
    IF slice.t = "FromTo" THEN
        IF slice.a >= size THEN None
        ELSE LET nbytes == Min(size - slice.a, SatInc(slice.b - slice.a))
             IN  Some(ContentRange(slice.a, slice.a + nbytes - 1, size))
    ELSE IF slice.t = "Last" THEN
        LET nbytes == IF slice.a > size THEN size ELSE slice.a
            start == IF slice.a > size THEN 0 ELSE size - slice.a
        IN  Some(ContentRange(start, SatDec(start + nbytes), size))
    ELSE
        IF slice.a >= size THEN None
        ELSE Some(ContentRange(slice.a, size - 1, size))

\* rng.end - rng.start + 1 in u64: the value a release build computes
RangeLen(rng) == (SubU(rng.end, rng.start) + 1) % ULimit

\* rng.end - rng.start + 1 overflows u64 (a panic in a debug build)
RangeLenOverflows(rng) == rng.end < rng.start \/ rng.end - rng.start = MaxU

\* fn resolve_range(inp_range, size) -> Result<(Option<ContentRange>, u64), Output>
resolve_range(inp_range, size, checked) ==
    IF ~inp_range.some THEN RROk(None, size)
    ELSE LET range == SliceRange(inp_range.v[1], size)
         IN  IF ~range.some THEN RRInvalid
             ELSE IF size = 0 THEN RROk(range, 0)
             ELSE IF RangeLenOverflows(range.v[1]) /\ checked THEN RRPanic
             ELSE RROk(range, RangeLen(range.v[1]))

\* struct Head (its config handle left out)
MkHead(encoding, clen, ctype, last_modified, etag, range, not_modified) ==
    [encoding |-> encoding, content_length |-> clen, content_type |-> ctype,
     last_modified |-> last_modified, etag |-> etag, range |-> range,
     not_modified |-> not_modified]

NoHead == MkHead("Identity", 0, None, None, None, None, FALSE)

\* the mod_time of from_meta: None when disabled or before MIN_DATE
ModTime(c, meta) ==
    IF c.last_modified /\ ~(meta.mtime < MIN_DATE) THEN Some(meta.mtime) ELSE None

\* the If-Modified-Since test of from_meta: `last_mod <= x` with last_mod the
\* request's date and x the file's mod_time
NotModifiedSince(if_modified, mod_time) ==
    if_modified.some /\ mod_time.some /\ if_modified.v[1] <= mod_time.v[1]

\* a conditional test where either header alone gives a hit
ConditionalHitEither(i, etag, mod_time) ==
    \/ \E k \in 1..Len(i.if_none) : Some(i.if_none[k]) = etag
    \/ NotModifiedSince(i.if_modified, mod_time)

\* the conditional branches of from_meta: If-None-Match when any tag was
\* parsed, else If-Modified-Since
ConditionalHit(i, etag, mod_time) ==
    IF Len(i.if_none) > 0
    THEN \E k \in 1..Len(i.if_none) : Some(i.if_none[k]) = etag
    ELSE NotModifiedSince(i.if_modified, mod_time)

\* Head::from_meta(inp, encoding, metadata, ctype) -> Result<Head, Output>
from_meta(i, c, encoding, meta, ctype, checked) ==
    LET mod_time == ModTime(c, meta)
        etag == IF c.etag THEN Some(EtagOf(meta)) ELSE None
        hit == ConditionalHit(i, etag, mod_time)
        rr == resolve_range(i.range, meta.size, checked)
    IN  IF hit
        THEN [r |-> "NotModified",
              head |-> MkHead(encoding, 0, None, mod_time, etag, None, TRUE)]
        ELSE IF rr.r = "InvalidRange" THEN [r |-> "InvalidRange", head |-> NoHead]
        ELSE IF rr.r = "Panic" THEN [r |-> "Panic", head |-> NoHead]
        ELSE [r |-> "Head",
              head |-> MkHead(encoding, rr.clen,
                              IF c.content_type THEN Some(ctype) ELSE None,
                              mod_time, etag, rr.range, FALSE)]

\* HeaderIter::next: the header the current state offers, if any
HeaderValue(head, state) ==
    IF state = "LastModified"
    THEN (IF head.last_modified.some THEN Some("Last-Modified") ELSE None)
    ELSE IF state = "Etag"
    THEN (IF head.etag.some THEN Some("ETag") ELSE None)
    ELSE IF state = "Encoding"
    THEN (IF head.encoding # "Identity" THEN Some("Content-Encoding") ELSE None)
    ELSE IF state = "ContentRange"
    THEN (IF head.range.some THEN Some("Content-Range") ELSE None)
    ELSE IF state = "ContentType"
    THEN (IF head.content_type.some THEN Some("Content-Type") ELSE None)
    ELSE IF state = "AcceptRanges" THEN Some("Accept-Ranges")
    ELSE None

\* HeaderIter::next going through every state, not_modified or not
HeaderStateAll(head, state) ==
    IF state = "LastModified" THEN "Etag"
    ELSE IF state = "Etag" THEN "Encoding"
    ELSE IF state = "Encoding" THEN "AcceptRanges"
    ELSE IF state = "AcceptRanges" THEN "ContentRange"
    ELSE IF state = "ContentRange" THEN "ContentType"
    ELSE "Done"

\* HeaderIter::next offering Content-Range before Accept-Ranges
HeaderStateRangeFirst(head, state) ==
    IF state = "LastModified" THEN "Etag"
    ELSE IF state = "Etag" THEN (IF head.not_modified THEN "Done" ELSE "Encoding")
    ELSE IF state = "Encoding" THEN "ContentRange"
    ELSE IF state = "ContentRange" THEN "AcceptRanges"
    ELSE IF state = "AcceptRanges" THEN "ContentType"
    ELSE "Done"

\* HeaderIter::next: the state that follows
HeaderState(head, state) ==
    IF state = "LastModified" THEN "Etag"
    ELSE IF state = "Etag" THEN (IF head.not_modified THEN "Done" ELSE "Encoding")
    ELSE IF state = "Encoding" THEN "AcceptRanges"
    ELSE IF state = "AcceptRanges" THEN "ContentRange"
    ELSE IF state = "ContentRange" THEN "ContentType"
    ELSE "Done"

\* the names HeaderIter yields from a state until next() returns None
RECURSIVE HeadersFrom(_, _)
HeadersFrom(head, state) ==
    IF state = "Done" THEN <<>>
    ELSE LET value == HeaderValue(head, state)
         IN  (IF value.some THEN <<value.v[1]>> ELSE <<>>)
             \o HeadersFrom(head, HeaderState(head, state))

\* Head::headers(): the iteration starts at LastModified
headers(head) == HeadersFrom(head, "LastModified")

\* struct FileWrapper: bytes_left, and its file (the position and the length)
MkFileWrapper(pos, bytes_left, size) ==
    [pos |-> pos, bytes_left |-> bytes_left, size |-> size]

NoFile == MkFileWrapper(0, 0, 0)

\* FileWrapper::new without its seek to the start of the range
FileWrapperNewNoSeek(head, size) ==
    IF head.range.some
    THEN MkFileWrapper(0, RangeLen(head.range.v[1]), size)
    ELSE MkFileWrapper(0, head.content_length, size)

\* FileWrapper::new(head, file): seeks to a non-zero start, counts the bytes
FileWrapperNew(head, size) ==
    IF head.range.some
    THEN MkFileWrapper(head.range.v[1].start, RangeLen(head.range.v[1]), size)
    ELSE MkFileWrapper(0, head.content_length, size)

\* FileWrapper::new's `end - start + 1` overflows u64 (a panic in a debug build)
FileWrapperNewPanics(head, checked) ==
    head.range.some /\ RangeLenOverflows(head.range.v[1]) /\ checked

-----------------------------------------------------------------------------
(* config.rs, input.rs: the request and the filesystem probe *)

\* struct Config (text_charset left out)
MkConfig(encoding_support, index_files, content_type, etag, last_modified) ==
    [encoding_support |-> encoding_support, index_files |-> index_files,
     content_type |-> content_type, etag |-> etag, last_modified |-> last_modified]

\* struct Input (the fields from_headers never sets left out)
MkInput(mode, accept_encoding, range, if_none, if_modified) ==
    [mode |-> mode, accept_encoding |-> accept_encoding, range |-> range,
     if_none |-> if_none, if_modified |-> if_modified]

\* a request: its method, and what its headers give the four parsers' done()
MkRequest(method, ae, range, if_none, if_modified) ==
    [method |-> method, ae |-> ae, range |-> range, if_none |-> if_none,
     if_modified |-> if_modified]

\* from_headers looking at the Range result before the method
FromHeadersRangeFirst(c, r) ==
    LET mode == IF r.method = "HEAD" THEN "Head"
                ELSE IF r.method = "GET" THEN "Get" ELSE "InvalidMethod"
    IN  IF r.range.r = "Err"
        THEN MkInput("InvalidRange", IdentityOnly, None, <<>>, None)
        ELSE IF mode = "InvalidMethod"
        THEN MkInput("InvalidMethod", IdentityOnly, None, <<>>, None)
        ELSE MkInput(mode,
                     IF c.encoding_support # "Never" THEN r.ae ELSE done(<<>>),
                     IF r.range.r = "OkSome" THEN Some(r.range.s) ELSE None,
                     IF c.etag THEN r.if_none ELSE <<>>,
                     IF c.last_modified THEN r.if_modified ELSE None)

\* Input::from_headers(cfg, method, headers)
from_headers(c, r) ==
    LET mode == IF r.method = "HEAD" THEN "Head"
                ELSE IF r.method = "GET" THEN "Get" ELSE "InvalidMethod"
    IN  IF mode = "InvalidMethod"
        THEN MkInput("InvalidMethod", IdentityOnly, None, <<>>, None)
        ELSE IF r.range.r = "Err"
        THEN MkInput("InvalidRange", IdentityOnly, None, <<>>, None)
        ELSE MkInput(mode,
                     IF c.encoding_support # "Never" THEN r.ae ELSE done(<<>>),
                     IF r.range.r = "OkSome" THEN Some(r.range.s) ELSE None,
                     IF c.etag THEN r.if_none ELSE <<>>,
                     IF c.last_modified THEN r.if_modified ELSE None)

\* fn is_text_file(val: &str) -> bool
is_text_file(val) ==
    val \in {"text/html", "text/plain"} \/ val = "application/javascript"

\* Path::extension of the file names the model uses
Extension(name) ==
    IF name \in {"a.html", "index.html"} THEN Some("html")
    ELSE IF name \in {"a.png", "index.png"} THEN Some("png")
    ELSE None

\* mime_guess::get_mime_type_str
get_mime_type_str(ext) ==
    IF ext = "html" THEN Some("text/html")
    ELSE IF ext = "png" THEN Some("image/png")
    ELSE None

\* the ctype of try_file
CType(name) ==
    LET e == Extension(name)
        t == IF e.some THEN get_mime_type_str(e.v[1]) ELSE None
    IN  IF t.some THEN t.v[1] ELSE "application/octed-stream"

\* the `encodings` flag of try_file
UseEncodings(c, ctype) ==
    IF c.encoding_support = "Never" THEN FALSE
    ELSE IF c.encoding_support = "TextFiles" THEN is_text_file(ctype)
    ELSE TRUE

\* filesystem nodes; "denied" can be stat'ed but not opened
AbsentNode == [kind |-> "absent", meta |-> Meta(0, 0, 0)]
DirNode == [kind |-> "dir", meta |-> Meta(0, 0, 0)]
DeniedNode == [kind |-> "denied", meta |-> Meta(0, 0, 0)]
FileNode(meta) == [kind |-> "file", meta |-> meta]

\* the paths under the base path: <<index file name or "", encoding suffix>>
IndexNames == {"index.html", "index.png"}
Paths == ({""} \cup IndexNames) \X {"", ".gz", ".br"}

\* probe_file's result: Ok(Output) or Err(io::Error)
Pending == [kind |-> "Pending", err |-> "", head |-> NoHead]
OkOut(kind) == [kind |-> kind, err |-> "", head |-> NoHead]
OkHead(kind, head) == [kind |-> kind, err |-> "", head |-> head]
ErrOut(err) == [kind |-> "Err", err |-> err, head |-> NoHead]

\* try_path answering HEAD with a Head that describes no body
OutputForHeadEmpty(mode, head) ==
    IF mode = "Head"
    THEN OkHead("FileHead", [head EXCEPT !.content_length = 0, !.range = None])
    ELSE OkHead("File", head)

\* Output for a Head from_meta returned: the match on self.mode in try_path
OutputFor(mode, head) ==
    IF mode = "Head" THEN OkHead("FileHead", head) ELSE OkHead("File", head)

\* Input::try_path(path, enc, ctype) on the node the path names
try_path(i, c, node, enc, ctype, checked) ==
    IF node.kind = "absent" THEN [out |-> ErrOut("NotFound"), panic |-> FALSE]
    ELSE IF node.kind = "denied" THEN [out |-> ErrOut("Other"), panic |-> FALSE]
    ELSE IF node.kind = "dir" THEN [out |-> ErrOut("NotFound"), panic |-> FALSE]
    ELSE LET h == from_meta(i, c, enc, node.meta, ctype, checked)
         IN  IF h.r = "Panic" THEN [out |-> Pending, panic |-> TRUE]
             ELSE IF h.r = "InvalidRange"
             THEN [out |-> OkOut("InvalidRange"), panic |-> FALSE]
             ELSE IF h.r = "NotModified"
             THEN [out |-> OkHead("NotModified", h.head), panic |-> FALSE]
             ELSE IF i.mode = "Get" /\ FileWrapperNewPanics(h.head, checked)
             THEN [out |-> Pending, panic |-> TRUE]
             ELSE [out |-> OutputFor(i.mode, h.head), panic |-> FALSE]

\* the file name of the path being opened
PathName == IF pb_child = "" THEN base ELSE pb_child

-----------------------------------------------------------------------------
(* The request state machine: from_headers, probe_file *)

PBIdle ==
    /\ cfg = MkConfig("Never", <<>>, TRUE, TRUE, TRUE)
    /\ req = MkRequest("GET", IdentityOnly, ROkNone, <<>>, None)
    /\ inp = from_headers(cfg, req)
    /\ base = "a" /\ fs = [p \in Paths |-> AbsentNode] /\ unlinked = 0
    /\ pb_pc = "idle" /\ pb_child = "" /\ pb_idx = 0 /\ pb_ctype = ""
    /\ pb_encs = FALSE /\ pb_it = [cur |-> 0, identity |-> FALSE]
    /\ outcome = Pending

BDIdle ==
    /\ writer = "none" /\ fw = NoFile /\ delivered = <<>>
    /\ last_ret = [ok |-> TRUE, n |-> 0, called |-> FALSE]

\* a request arrives: nothing is parsed or probed yet
PBStart ==
    /\ inp = MkInput("InvalidMethod", IdentityOnly, None, <<>>, None)
    /\ unlinked = 0
    /\ pb_pc = "start" /\ pb_child = "" /\ pb_idx = 0 /\ pb_ctype = ""
    /\ pb_encs = FALSE /\ pb_it = [cur |-> 0, identity |-> FALSE]
    /\ outcome = Pending
    /\ fw = NoFile /\ delivered = <<>>
    /\ last_ret = [ok |-> TRUE, n |-> 0, called |-> FALSE]

\* Input::from_headers
PBFromHeaders ==
    /\ pb_pc = "start"
    /\ inp' = from_headers(cfg, req)
    /\ pb_pc' = "parsed"
    /\ UNCHANGED <<cfg, req, base, fs, unlinked, pb_child, pb_idx, pb_ctype,
                   pb_encs, pb_it, outcome, bdVars, debug_build, notPB>>

\* try_file up to its first open: the type, and which encodings will be tried
TryFileSetup(child) ==
    LET ctype == CType(IF child = "" THEN base ELSE child)
    IN  /\ pb_pc' = "open"
        /\ pb_child' = child
        /\ pb_ctype' = ctype
        /\ pb_encs' = UseEncodings(cfg, ctype)
        /\ pb_it' = LET j == NextYield(inp.accept_encoding, 0, FALSE)
                    IN  [cur |-> j, identity |-> inp.accept_encoding[j] = "Identity"]

\* Input::probe_file up to the end of base_path.metadata()
PBProbeStat ==
    /\ pb_pc = "parsed"
    /\ IF inp.mode = "InvalidMethod" THEN
           /\ outcome' = OkOut("InvalidMethod") /\ pb_pc' = "done"
           /\ UNCHANGED <<pb_child, pb_ctype, pb_encs, pb_it>>
       ELSE IF inp.mode = "InvalidRange" THEN
           /\ outcome' = OkOut("InvalidRange") /\ pb_pc' = "done"
           /\ UNCHANGED <<pb_child, pb_ctype, pb_encs, pb_it>>
       ELSE IF fs[<<"", "">>].kind = "absent" THEN
           /\ outcome' = OkOut("NotFound") /\ pb_pc' = "done"
           /\ UNCHANGED <<pb_child, pb_ctype, pb_encs, pb_it>>
       ELSE IF fs[<<"", "">>].kind = "dir" THEN
           IF cfg.index_files = <<>>
           THEN /\ outcome' = OkOut("Directory") /\ pb_pc' = "done"
                /\ UNCHANGED <<pb_child, pb_ctype, pb_encs, pb_it>>
           ELSE /\ pb_pc' = "dir"
                /\ UNCHANGED <<outcome, pb_child, pb_ctype, pb_encs, pb_it>>
       ELSE TryFileSetup("") /\ UNCHANGED outcome
    /\ UNCHANGED <<cfg, req, inp, base, fs, unlinked, pb_idx, bdVars,
                   debug_build, notPB>>

\* an existence test that only regular files pass
ExistsAsFile(node) == node.kind = "file"

\* Path::exists: anything that can be stat'ed, directories included
exists(node) == node.kind # "absent"

\* Input::try_dir: one turn of its loop, buf.exists() for the next index file
PBTryDir ==
    /\ pb_pc = "dir"
    /\ LET name == cfg.index_files[pb_idx + 1]
       IN  IF exists(fs[<<name, "">>])
           THEN TryFileSetup(name) /\ UNCHANGED <<outcome, pb_idx>>
           ELSE IF pb_idx + 1 = Len(cfg.index_files)
           THEN /\ outcome' = OkOut("Directory") /\ pb_pc' = "done"
                /\ pb_idx' = pb_idx + 1
                /\ UNCHANGED <<pb_child, pb_ctype, pb_encs, pb_it>>
           ELSE /\ pb_idx' = pb_idx + 1
                /\ UNCHANGED <<outcome, pb_pc, pb_child, pb_ctype, pb_encs, pb_it>>
    /\ UNCHANGED <<cfg, req, inp, base, fs, unlinked, bdVars, debug_build, notPB>>

\* try_encodings going on after any error of try_path
ContinuesSearchAnyErr(out) == out.kind = "Err"

\* what try_encodings does with one try_path's result: "return" it, or go on
ContinuesSearch(out) == out.kind = "Err" /\ out.err = "NotFound"

\* Input::try_path for the next candidate: File::open, metadata, from_meta,
\* FileWrapper::new; in try_encodings, followed by the loop's next turn
PBTryPath ==
    /\ pb_pc = "open"
    /\ LET enc == IF pb_encs THEN inp.accept_encoding[pb_it.cur] ELSE "Identity"
           node == fs[<<pb_child, Suffix(enc)>>]
           res == try_path(inp, cfg, node, enc, pb_ctype, debug_build)
           j == NextYield(inp.accept_encoding, pb_it.cur, pb_it.identity)
       IN  IF res.panic THEN
               /\ pb_pc' = "panicked"
               /\ UNCHANGED <<outcome, pb_it, fw>>
           ELSE IF pb_encs /\ ContinuesSearch(res.out) THEN
               IF j = 4
               THEN /\ outcome' = OkOut("NotFound") /\ pb_pc' = "done"
                    /\ UNCHANGED <<pb_it, fw>>
               ELSE /\ pb_it' = [cur |-> j,
                                 identity |-> (pb_it.identity
                                     \/ inp.accept_encoding[j] = "Identity")]
                    /\ UNCHANGED <<outcome, pb_pc, fw>>
           ELSE
               /\ outcome' = res.out
               /\ pb_pc' = "done"
               /\ fw' = IF res.out.kind \in {"File", "FileRange"}
                        THEN FileWrapperNew(res.out.head, node.meta.size) ELSE fw
               /\ UNCHANGED pb_it
    /\ UNCHANGED <<cfg, req, inp, base, fs, unlinked, pb_child, pb_idx, pb_ctype,
                   pb_encs, writer, delivered, last_ret, debug_build, notPB>>

\* another process removes a file while the request is being probed
FsUnlink ==
    /\ pb_pc \in {"parsed", "dir", "open"}
    /\ unlinked < MaxUnlinks
    /\ \E p \in Paths :
        /\ fs[p].kind = "file"
        /\ fs' = [fs EXCEPT ![p] = AbsentNode]
    /\ unlinked' = unlinked + 1
    /\ UNCHANGED <<cfg, req, inp, base, pb_pc, pb_child, pb_idx, pb_ctype, pb_encs,
                   pb_it, outcome, bdVars, debug_build, notPB>>

-----------------------------------------------------------------------------
(* output.rs: FileWrapper::read_chunk *)

\* what file.read(&mut buf[..max]) may return at position pos of a file of
\* `size` bytes: 0 at the end of the file, else 1..max bytes
ReadAmounts(max, size, pos) ==
    IF pos >= size THEN {0} ELSE 1..Min(max, size - pos)

WriteErr == 0 - 1

\* what output.write(&buf[..r]) may return, by kind of writer:
\* "full" accepts every byte, "partial" at least one byte and fewer than r
\* when it can, "any" whatever std::io::Write allows (WriteErr: an error)
WriterReturns(kind, r) ==
    IF kind = "full" THEN {r}
    ELSE IF kind = "partial" THEN (IF r >= 2 THEN 1..(r - 1) ELSE {r})
    ELSE (0..r) \cup {WriteErr}

\* read_chunk without the seek back after a partial write
PosAfterWriteNoRewind(pos, r, w) == pos + r

\* read_chunk without the seek back after a failed write
PosAfterErrorNoRewind(pos, r) == pos + r

\* the file position after read_chunk read r bytes and the writer took w:
\* seek(SeekFrom::Current(-(bytes - wbytes))) unless all was written
PosAfterWrite(pos, r, w) == IF w # r THEN (pos + r) - (r - w) ELSE pos + r

\* the file position after the writer failed: seek(SeekFrom::Current(-bytes))
PosAfterError(pos, r) == (pos + r) - r

\* one call of FileWrapper::read_chunk
BDReadChunk ==
    /\ pb_pc = "done" /\ outcome.kind \in {"File", "FileRange"}
    /\ IF fw.bytes_left = 0
       THEN /\ last_ret' = [ok |-> TRUE, n |-> 0, called |-> TRUE]
            /\ UNCHANGED <<fw, delivered>>
       ELSE \E r \in ReadAmounts(Min(BufLen, fw.bytes_left), fw.size, fw.pos) :
            \E w \in WriterReturns(writer, r) :
               IF w = WriteErr
               THEN /\ fw' = [fw EXCEPT !.pos = PosAfterError(fw.pos, r)]
                    /\ last_ret' = [ok |-> FALSE, n |-> 0, called |-> TRUE]
                    /\ UNCHANGED delivered
               ELSE /\ fw' = [fw EXCEPT !.pos = PosAfterWrite(fw.pos, r, w),
                                        !.bytes_left = fw.bytes_left - w]
                    /\ delivered' = delivered \o [k \in 1..w |-> fw.pos + k - 1]
                    /\ last_ret' = [ok |-> TRUE, n |-> w, called |-> TRUE]
    /\ UNCHANGED <<pbVars, writer, debug_build, notPB>>

-----------------------------------------------------------------------------
(* etag.rs, conditionals.rs: the ETag text and the If-None-Match parser *)

UpperChars ==
    <<"A", "B", "C", "D", "E", "F", "G", "H", "I", "J", "K", "L", "M",
      "N", "O", "P", "Q", "R", "S", "T", "U", "V", "W", "X", "Y", "Z">>

LowerChars ==
    <<"a", "b", "c", "d", "e", "f", "g", "h", "i", "j", "k", "l", "m",
      "n", "o", "p", "q", "r", "s", "t", "u", "v", "w", "x", "y", "z">>

\* const CHARS of base64triple: the url-safe base64 alphabet
CHARS == UpperChars \o LowerChars \o Digits \o <<"-", "_">>

InSeq(seq, c) == \E k \in 1..Len(seq) : seq[k] = c

\* c - first, for a byte c of the run of characters `seq` starting at first
OffsetIn(seq, c) == (CHOOSE k \in 1..Len(seq) : seq[k] = c) - 1

\* fn base64triple(src: &[u8], dest: &mut [u8])
base64triple(src) ==
    LET n == src[1] * 65536 + src[2] * 256 + src[3]
    IN  << CHARS[((n \div 262144) % 64) + 1], CHARS[((n \div 4096) % 64) + 1],
           CHARS[((n \div 64) % 64) + 1], CHARS[(n % 64) + 1] >>

DecOk(v) == [ok |-> TRUE, v |-> v]
DecErr == [ok |-> FALSE, v |-> <<>>]

\* decode_char reading the standard base64 alphabet's order of the last two
DecodeCharSwapped(c) ==
    IF c = "-" THEN DecOk(<<63>>)
    ELSE IF c = "_" THEN DecOk(<<62>>)
    ELSE IF InSeq(Digits, c) THEN DecOk(<<OffsetIn(Digits, c) + 52>>)
    ELSE IF InSeq(UpperChars, c) THEN DecOk(<<OffsetIn(UpperChars, c)>>)
    ELSE IF InSeq(LowerChars, c) THEN DecOk(<<OffsetIn(LowerChars, c) + 26>>)
    ELSE DecErr

\* fn decode_char(c: u8) -> Result<u8, ()>
decode_char(c) ==
    IF c = "-" THEN DecOk(<<62>>)
    ELSE IF c = "_" THEN DecOk(<<63>>)
    ELSE IF InSeq(Digits, c) THEN DecOk(<<OffsetIn(Digits, c) + 52>>)
    ELSE IF InSeq(UpperChars, c) THEN DecOk(<<OffsetIn(UpperChars, c)>>)
    ELSE IF InSeq(LowerChars, c) THEN DecOk(<<OffsetIn(LowerChars, c) + 26>>)
    ELSE DecErr

\* fn decode4(src: &[u8], dest: &mut [u8]) -> Result<(), ()>
decode4(src) ==
    LET c == [k \in 1..4 |-> decode_char(src[k])]
    IN  IF \E k \in 1..4 : ~c[k].ok THEN DecErr
        ELSE LET n == c[1].v[1] * 262144 + c[2].v[1] * 4096
                      + c[3].v[1] * 64 + c[4].v[1]
             IN  DecOk(<<(n \div 65536) % 256, (n \div 256) % 256, n % 256>>)

\* Etag::decode_base64(slice) -> Result<Etag, ()>
decode_base64(slice) ==
    LET q == [k \in 1..4 |-> decode4(SubSeq(slice, 4 * k - 3, 4 * k))]
    IN  IF \E k \in 1..4 : ~q[k].ok THEN DecErr
        ELSE DecOk(q[1].v \o q[2].v \o q[3].v \o q[4].v)

\* impl fmt::Display for Etag
Etag_fmt(e) ==
    <<"W", "/", "\"">>
    \o base64triple(SubSeq(e, 1, 3)) \o base64triple(SubSeq(e, 4, 6))
    \o base64triple(SubSeq(e, 7, 9)) \o base64triple(SubSeq(e, 10, 12))
    \o <<"\"">>

\* add_chunk taking strong tags too: the `W/` in front is optional
AddChunkStrongToo(etags, chunk0) ==
    LET t == TrimLeft(chunk0)
        chunk == IF t # <<>> /\ t[1] = "\"" THEN <<"W", "/">> \o t ELSE t
    IN  IF Len(chunk) < 4 + 16 THEN etags
        ELSE IF chunk[1] # "W" \/ chunk[2] # "/" \/ chunk[3] # "\""
                \/ chunk[16 + 4] # "\""
        THEN etags
        ELSE IF ~(\A k \in (16 + 5)..Len(chunk) : chunk[k] = " ") THEN etags
        ELSE LET d == decode_base64(SubSeq(chunk, 4, 16 + 3))
             IN  IF d.ok THEN Append(etags, d.v) ELSE etags

\* NoneMatchParser::add_chunk(chunk)
NoneMatchParser_add_chunk(etags, chunk0) ==
    LET chunk == TrimLeft(chunk0)
    IN  IF Len(chunk) < 4 + 16 THEN etags
        ELSE IF chunk[1] # "W" \/ chunk[2] # "/" \/ chunk[3] # "\""
                \/ chunk[16 + 4] # "\""
        THEN etags
        ELSE IF ~(\A k \in (16 + 5)..Len(chunk) : chunk[k] = " ") THEN etags
        ELSE LET d == decode_base64(SubSeq(chunk, 4, 16 + 3))
             IN  IF d.ok THEN Append(etags, d.v) ELSE etags

RECURSIVE NoneMatchChunks(_, _)
NoneMatchChunks(etags, chunks) ==
    IF chunks = <<>> THEN etags
    ELSE NoneMatchChunks(NoneMatchParser_add_chunk(etags, Head(chunks)), Tail(chunks))

\* NoneMatchParser::add_header(header)
NoneMatchParser_add_header(etags, header) ==
    NoneMatchChunks(etags, Split(header, ","))

-----------------------------------------------------------------------------
(* If-None-Match inputs: the tags of some files, well and badly written *)

\* the dates a request may carry in If-Modified-Since
IfModifiedChoices == { None, Some(MIN_DATE), Some(MIN_DATE + 1) }

\* the Etag of etag.rs' test `format`
TestEtag == <<181, 130, 83, 244, 162, 84, 35, 66, 151, 216, 142, 106>>

\* digests a file may have
Etags == { TestEtag, [k \in 1..12 |-> 0], [k \in 1..12 |-> 255] }

\* a digest that differs from e in its last bits only
NearEtag(e) == [e EXCEPT ![12] = (@ + 1) % 256]

\* ways a client writes the tag e in If-None-Match
TagTexts(e) ==
    LET d == Etag_fmt(e)
    IN  { d,
          <<" ", " ">> \o d \o <<" ">>,
          Tail(Tail(d)),
          <<"X">> \o Tail(d),
          <<"w">> \o Tail(d),
          [d EXCEPT ![10] = "^"],
          [d EXCEPT ![10] = " "],
          d \o <<"+", "1">>,
          SubSeq(d, 1, 18) \o <<"\"">>,
          SubSeq(d, 1, 19) \o <<"A", "\"">>,
          <<"\t">> \o d,
          <<"*">> }

\* the tokens a request for the file with digest e may carry
TagTokens(e) == TagTexts(e) \cup TagTexts(NearEtag(e))

RECURSIVE TagLists(_, _)
TagLists(e, n) ==
    IF n = 0 THEN { <<>> }
    ELSE { <<t>> \o l : t \in TagTokens(e), l \in TagLists(e, n - 1) }

\* the If-None-Match header values of one request: one value of up to
\* MaxTags tokens, or two values of one token each
NoneMatchRequests(e) ==
    { <<JoinComma(l)>> : l \in UNION { TagLists(e, n) : n \in 1..MaxTags } }
    \cup { l \in TagLists(e, 2) : MaxTags >= 2 }

-----------------------------------------------------------------------------
(* If-None-Match state machine: the parser, then the test of from_meta *)

ETIdle ==
    /\ et_pc = "idle" /\ et_server = TestEtag /\ et_input = <<>> /\ et_fed = 0
    /\ et_etags = <<>> /\ et_modified = None /\ et_hit = FALSE /\ et_sent = <<>>

\* NoneMatchParser::new, for a request with the given If-None-Match headers
ETInit ==
    /\ et_pc = "parsing" /\ et_server \in Etags
    /\ et_input \in NoneMatchRequests(et_server) /\ et_fed = 0
    /\ et_etags = <<>> /\ et_modified \in IfModifiedChoices
    /\ et_hit = FALSE /\ et_sent = <<>>

\* from_headers gives the next If-None-Match header to the parser
ETAddHeader ==
    /\ et_pc = "parsing" /\ et_fed < Len(et_input)
    /\ et_fed' = et_fed + 1
    /\ et_etags' = NoneMatchParser_add_header(et_etags, et_input[et_fed + 1])
    /\ UNCHANGED <<et_pc, et_server, et_input, et_modified, et_hit, et_sent, notET>>

\* NoneMatchParser::done
ETDone ==
    /\ et_pc = "parsing" /\ et_fed = Len(et_input)
    /\ et_pc' = "parsed"
    /\ UNCHANGED <<et_server, et_input, et_fed, et_etags, et_modified, et_hit,
                   et_sent, notET>>

\* from_meta tests the conditionals; the response carries the file's ETag
ETDecide ==
    /\ et_pc = "parsed"
    /\ et_pc' = "done"
    /\ et_hit' = ConditionalHit(MkInput("Get", IdentityOnly, None, et_etags,
                                        et_modified),
                                Some(et_server), Some(MIN_DATE))
    /\ et_sent' = Etag_fmt(et_server)
    /\ UNCHANGED <<et_server, et_input, et_fed, et_etags, et_modified, notET>>

ETNext == ETAddHeader \/ ETDone \/ ETDecide

-----------------------------------------------------------------------------
(* output.rs: HeaderIter *)

\* HeaderIter::next: the loop runs until a state offers a header or is Done
RECURSIVE HeaderIter_next(_, _)
HeaderIter_next(head, state) ==
    IF state = "Done" THEN [value |-> None, state |-> "Done"]
    ELSE LET value == HeaderValue(head, state)
         IN  IF value.some
             THEN [value |-> value, state |-> HeaderState(head, state)]
             ELSE HeaderIter_next(head, HeaderState(head, state))

\* Head::headers(): an iterator in state LastModified
HIIdle == hi_state = "LastModified" /\ hi_out = <<>> /\ hi_nones = 0

\* one call of HeaderIter::next on the response's Head
HINext ==
    /\ pb_pc = "done"
    /\ outcome.kind \in {"File", "FileRange", "FileHead", "NotModified"}
    /\ hi_nones < MaxNones
    /\ LET r == HeaderIter_next(outcome.head, hi_state)
       IN  /\ hi_state' = r.state
           /\ hi_out' = IF r.value.some THEN Append(hi_out, r.value.v[1]) ELSE hi_out
           /\ hi_nones' = IF r.value.some THEN hi_nones ELSE hi_nones + 1
    /\ UNCHANGED <<aeVars, rgVars, pbVars, bdVars, etVars, debug_build>>

-----------------------------------------------------------------------------
(* Requests, configurations and filesystems the specifications start from *)

SliceSet ==
    { FromTo(p[1], p[2]) : p \in { q \in Offsets \X Offsets : q[1] <= q[2] } }
    \cup { AllFrom(x) : x \in Offsets } \cup { Last(n) : n \in Offsets }

MTimes == { MIN_DATE - 1, MIN_DATE, MIN_DATE + 1 }

\* an ETag no file of the model has
StaleEtag == EtagOf(Meta(0, 0, 0))

IfNoneChoices(meta) ==
    { <<>>, <<EtagOf(meta)>>, <<StaleEtag>>, <<StaleEtag, EtagOf(meta)>> }

DefaultConfig == MkConfig("Never", <<>>, TRUE, TRUE, TRUE)

\* a filesystem whose base path is a regular file with no encoded variants
OneFile(meta) ==
    [p \in Paths |-> IF p = <<"", "">> THEN FileNode(meta) ELSE AbsentNode]

\* the same file with a gzip variant beside it, of the same size and date
WithGzip(meta) ==
    [p \in Paths |-> IF p = <<"", "">> THEN FileNode(meta)
                     ELSE IF p = <<"", ".gz">>
                     THEN FileNode(Meta(meta.size, meta.mtime, meta.ino + 1))
                     ELSE AbsentNode]

\* what AcceptEncodingParser::done returns for `Accept-Encoding: gzip`
GzipOnly == done(<<<<"Gzip", 1000>>>>)

\* what AcceptEncodingParser::done returns for some Accept-Encoding headers
AEChoices ==
    { done(<<>>),
      done(<<<<"Gzip", 1000>>, <<"Brotli", 1000>>>>),
      done(<<<<"Identity", 1000>>, <<"Brotli", 500>>>>),
      done(<<<<"Brotli", 1000>>, <<"Brotli", 1000>>, <<"Gzip", 1000>>>>) }

ProbeRequests ==
    { MkRequest(m, ae, ROkNone, <<>>, None) : m \in {"GET", "HEAD"}, ae \in AEChoices }
    \cup { MkRequest("POST", IdentityOnly, ROkNone, <<>>, None),
           MkRequest("get", IdentityOnly, ROkNone, <<>>, None),
           MkRequest("POST", IdentityOnly, RErr, <<>>, None),
           MkRequest("GET", IdentityOnly, RErr, <<>>, None),
           MkRequest("GET", IdentityOnly, ROkSome(FromTo(0, 0)), <<>>, None) }

ProbeConfigs ==
    { MkConfig(es, idx, TRUE, TRUE, TRUE) :
        es \in {"Never", "TextFiles", "AllFiles"},
        idx \in { <<>>, <<"index.html">>, <<"index.png", "index.html">> } }

\* the files of the probe's filesystems: a path's file has its own inode
FileAt(p) ==
    FileNode(Meta(IF p[2] = "" THEN 3 ELSE IF p[2] = ".gz" THEN 2 ELSE 1, MIN_DATE,
                  (IF p[1] = "" THEN 0 ELSE IF p[1] = "index.html" THEN 3 ELSE 6)
                  + (IF p[2] = "" THEN 1 ELSE IF p[2] = ".gz" THEN 2 ELSE 3)))

NodeChoices(p, kinds) ==
    { n \in {AbsentNode, DirNode, DeniedNode, FileAt(p)} : n.kind \in kinds }

AllKinds == {"absent", "dir", "denied", "file"}

\* a filesystem given by the nodes at its paths, the rest missing
FsWith(nodes) ==
    [p \in Paths |-> IF p \in DOMAIN nodes THEN nodes[p] ELSE AbsentNode]

\* the base path is a file (or cannot be opened), any kind of variant beside it
FileFilesystems ==
    { FsWith([p \in {<<"", "">>, <<"", ".gz">>, <<"", ".br">>} |->
                IF p[2] = "" THEN b ELSE IF p[2] = ".gz" THEN g ELSE r]) :
        b \in NodeChoices(<<"", "">>, {"file", "denied"}),
        g \in NodeChoices(<<"", ".gz">>, AllKinds),
        r \in NodeChoices(<<"", ".br">>, AllKinds) }

\* the base path is missing, with or without a left-over variant
MissingFilesystems ==
    { FsWith([p \in {<<"", ".gz">>} |-> g]) :
        g \in NodeChoices(<<"", ".gz">>, {"absent", "file"}) }

\* the base path is a directory holding index files, directories of that name,
\* and encoded variants of index.html
DirFilesystems ==
    { FsWith([p \in {<<"", "">>, <<"index.html", "">>, <<"index.png", "">>,
                     <<"index.html", ".gz">>, <<"index.html", ".br">>} |->
                IF p[1] = "" THEN DirNode
                ELSE IF p[1] = "index.png" THEN n
                ELSE IF p[2] = "" THEN h
                ELSE IF p[2] = ".gz" THEN g ELSE r]) :
        h \in NodeChoices(<<"index.html", "">>, {"absent", "dir", "file"}),
        n \in NodeChoices(<<"index.png", "">>, {"absent", "dir", "file"}),
        g \in NodeChoices(<<"index.html", ".gz">>, {"absent", "file"}),
        r \in NodeChoices(<<"index.html", ".br">>, {"absent", "file"}) }

ProbeFilesystems == FileFilesystems \cup MissingFilesystems \cup DirFilesystems

-----------------------------------------------------------------------------
(* Specifications: one per component, the other components idle *)

vars == <<aeVars, rgVars, pbVars, bdVars, etVars, hiVars, debug_build>>

InitAE ==
    AEInit /\ RGIdle /\ PBIdle /\ BDIdle /\ ETIdle /\ HIIdle /\ debug_build = FALSE

SpecAE == InitAE /\ [][AENext]_vars

InitRange == RGInit /\ AEIdle /\ PBIdle /\ BDIdle /\ ETIdle /\ HIIdle

SpecRange == InitRange /\ [][RGNext]_vars

\* the response decision: one regular file, alone or with a gzip variant that is
\* negotiated, every kind of conditional and range
InitDecide ==
    /\ AEIdle /\ RGIdle /\ PBStart /\ ETIdle /\ HIIdle
    /\ debug_build \in BOOLEAN
    /\ writer = "none"
    /\ base = "a.html"
    /\ \E size \in 0..MaxSize, mtime \in MTimes, gz \in BOOLEAN :
        /\ cfg \in { MkConfig(IF gz THEN "AllFiles" ELSE "Never", <<>>, ct, et, lm) :
                        ct \in BOOLEAN, et \in BOOLEAN, lm \in BOOLEAN }
        /\ fs = IF gz THEN WithGzip(Meta(size, mtime, 1)) ELSE OneFile(Meta(size, mtime, 1))
        /\ req \in { MkRequest(m, IF gz THEN GzipOnly ELSE IdentityOnly, rg, inm, ims) :
                        m \in {"GET", "HEAD"},
                        rg \in {ROkNone} \cup { ROkSome(sl) : sl \in SliceSet },
                        inm \in IfNoneChoices(Meta(size, mtime, 1)),
                        ims \in IfModifiedChoices }

NextDecide == PBFromHeaders \/ PBProbeStat \/ PBTryPath

SpecDecide == InitDecide /\ [][NextDecide]_vars

\* the filesystem probe: index files, encoded variants, files that go away
InitProbe ==
    /\ AEIdle /\ RGIdle /\ PBStart /\ ETIdle /\ HIIdle
    /\ debug_build = FALSE
    /\ writer = "none"
    /\ base \in {"a.html", "a"}
    /\ cfg \in ProbeConfigs
    /\ fs \in ProbeFilesystems
    /\ req \in ProbeRequests

NextProbe == PBFromHeaders \/ PBProbeStat \/ PBTryDir \/ PBTryPath \/ FsUnlink

SpecProbe == InitProbe /\ [][NextProbe]_vars

\* the body reader: a GET of one regular file, streamed to a writer
InitBody ==
    /\ AEIdle /\ RGIdle /\ PBStart /\ ETIdle /\ HIIdle
    /\ debug_build \in BOOLEAN
    /\ writer \in {"full", "partial", "any"}
    /\ base = "a.html"
    /\ cfg = DefaultConfig
    /\ \E size \in 0..MaxSize : fs = OneFile(Meta(size, MIN_DATE, 1))
    /\ req \in { MkRequest("GET", IdentityOnly, rg, <<>>, None) :
                    rg \in {ROkNone} \cup { ROkSome(sl) : sl \in SliceSet } }

NextBody == PBFromHeaders \/ PBProbeStat \/ PBTryPath \/ BDReadChunk

\* read_chunk is called again and again while the response is being sent
SpecBody == InitBody /\ [][NextBody]_vars /\ WF_bdVars(BDReadChunk)

\* the If-None-Match parser and the conditional test
InitEtag ==
    /\ ETInit /\ AEIdle /\ RGIdle /\ PBIdle /\ BDIdle /\ HIIdle
    /\ debug_build = FALSE

SpecEtag == InitEtag /\ [][ETNext]_vars

\* the response headers: one regular file, alone or with a gzip variant, the
\* Head of the response iterated
InitHeaders ==
    /\ AEIdle /\ RGIdle /\ PBStart /\ ETIdle /\ HIIdle
    /\ debug_build = FALSE
    /\ writer = "none"
    /\ base = "a.html"
    /\ \E size \in 0..MaxSize, mtime \in MTimes, gz \in BOOLEAN :
        /\ cfg \in { MkConfig(IF gz THEN "AllFiles" ELSE "Never", <<>>, ct, et, lm) :
                        ct \in BOOLEAN, et \in BOOLEAN, lm \in BOOLEAN }
        /\ fs = IF gz THEN WithGzip(Meta(size, mtime, 1)) ELSE OneFile(Meta(size, mtime, 1))
        /\ req \in { MkRequest(m, IF gz THEN GzipOnly ELSE IdentityOnly, rg, inm, None) :
                        m \in {"GET", "HEAD"},
                        rg \in {ROkNone} \cup { ROkSome(sl) : sl \in SliceSet },
                        inm \in { <<>>, <<EtagOf(Meta(size, mtime, 1))>> } }

NextHeaders == PBFromHeaders \/ PBProbeStat \/ PBTryPath \/ HINext

SpecHeaders == InitHeaders /\ [][NextHeaders]_vars

-----------------------------------------------------------------------------
(* Claims about the Accept-Encoding parser, checked under SpecAE *)

\* C1: parsing an Accept-Encoding header never panics: add_header and done()
\* complete normally for every header value, a malformed q only drops its token.
C1_ParseNeverPanics == ae_pc # "panicked"

RECURSIVE CountOf(_, _)
CountOf(s, x) ==
    IF s = <<>> THEN 0
    ELSE (IF Head(s) = x THEN 1 ELSE 0) + CountOf(Tail(s), x)

\* C5: a finished iteration of the parsed AcceptEncoding has yielded Identity
\* exactly once, whatever tokens (repeated ones included) the headers carried.
C5_IdentityExactlyOnce == it_done => CountOf(it_out, "Identity") = 1

\* the strict grammar of a q parameter: 0 | 0. d{1,3} | 1 | 1. 0{0,3}
StrictQ(q) ==
    \/ q = <<"q", "=", "0">>
    \/ /\ StartsWith(q, <<"q", "=", "0", ".">>) /\ Len(q) \in 5..7
       /\ \A k \in 5..Len(q) : IsDigit(q[k])
    \/ q = <<"q", "=", "1">>
    \/ /\ StartsWith(q, <<"q", "=", "1", ".">>) /\ Len(q) \in 4..7
       /\ \A k \in 5..Len(q) : q[k] = "0"

\* the q of a parameter of the strict grammar, in thousandths
Thousandths(q) ==
    IF q[3] = "1" THEN 1000
    ELSE (IF Len(q) >= 5 THEN 100 * DigitVal(q[5]) ELSE 0)
         + (IF Len(q) >= 6 THEN 10 * DigitVal(q[6]) ELSE 0)
         + (IF Len(q) >= 7 THEN DigitVal(q[7]) ELSE 0)

\* C25: parse_q accepts exactly the strict grammar.  Whenever add_header
\* returns from a header value of one token that names an encoding, the token
\* is stored iff it has no parameter (with q 1000) or its trimmed parameter is
\* of the strict grammar (with its q in thousandths, within 0..1000); every
\* other parameter leaves the parser as it was.
C25_StrictQGrammar ==
    [][(/\ ae_pc = "parsing" /\ ae_pc' = "parsing" /\ ae_input' = ae_input + 1
        /\ Len(Split(ae_last', ",")) = 1
        /\ EncName(Split(ae_last', ";")[1]) \in Encodings)
        => LET pieces == Split(ae_last', ";")
               enc == EncName(pieces[1])
               q == Trim(pieces[2])
           IN  ae_buf' =
                 IF Len(pieces) = 1 THEN Append(ae_buf, <<enc, 1000>>)
                 ELSE IF IsUtf8(pieces[2]) /\ StrictQ(q)
                 THEN Append(ae_buf, <<enc, Thousandths(q)>>)
                 ELSE ae_buf]_vars

-----------------------------------------------------------------------------
(* Claims about the Range parser, checked under SpecRange *)

RECURSIVE MinLo(_)
MinLo(l) ==
    IF Len(l) = 1 THEN l[1].a
    ELSE LET m == MinLo(Tail(l)) IN IF l[1].a < m THEN l[1].a ELSE m

RECURSIVE MaxHi(_)
MaxHi(l) ==
    IF Len(l) = 1 THEN l[1].b
    ELSE LET m == MaxHi(Tail(l)) IN IF l[1].b > m THEN l[1].b ELSE m

\* C6: when a header listing several FromTo slices is accepted, the resulting
\* slice is the union of the listed slices, [min lo, max hi]: every byte of
\* every listed slice is inside the result.
C6_MergeIsUnion ==
    (rg_result.r = "OkSome" /\ Len(rg_slices) >= 2)
        => rg_result.s = FromTo(MinLo(rg_slices), MaxHi(rg_slices))

\* the encoding has a token the parser accepted (with q not 0)
Accepted(enc) == \E k \in 1..Len(ae_buf) : ae_buf[k][1] = enc /\ ae_buf[k][2] # 0

\* the highest q the header gave the encoding
BestQ(enc) ==
    CHOOSE q \in { ae_buf[k][2] : k \in { n \in 1..Len(ae_buf) : ae_buf[n][1] = enc } } :
        \A k \in 1..Len(ae_buf) : ae_buf[k][1] = enc => ae_buf[k][2] <= q

FirstAt(enc, i) == it_out[i] = enc /\ \A k \in 1..(i - 1) : it_out[k] # enc

\* C17: the iteration lists the accepted encodings by q descending and, for
\* equal q, in the order Brotli, Gzip, Identity, whatever the order of the
\* tokens in the header: an encoding of strictly higher q comes first.
C17_OrderedByQ ==
    it_done =>
        \A i, j \in 1..Len(it_out) :
            LET a == it_out[i]
                b == it_out[j]
            IN  (/\ i < j /\ a # b /\ FirstAt(a, i) /\ FirstAt(b, j)
                 /\ Accepted(a) /\ Accepted(b))
                    => \/ BestQ(a) > BestQ(b)
                       \/ BestQ(a) = BestQ(b) /\ EncOrd(a) < EncOrd(b)

C17_Witness ==
    /\ it_done
    /\ ae_buf = <<<<"Gzip", 500>>, <<"Identity", 1000>>, <<"Brotli", 1000>>>>
    /\ it_out = <<"Brotli", "Identity", "Gzip">>

\* the loop of parse_header over slices already parsed: the merged slice, or
\* Last(0) with ok FALSE when a merge fails
RECURSIVE MergeAll(_, _)
MergeAll(acc, rest) ==
    IF rest = <<>> THEN [ok |-> TRUE, s |-> acc]
    ELSE LET m == merge(acc, Head(rest), debug_build)
         IN  IF m.r = "true" THEN MergeAll(m.s, Tail(rest))
             ELSE [ok |-> FALSE, s |-> Last(0)]

\* the slices of the accepted header, listed in the order f
Reordered(f) == [k \in 1..Len(rg_slices) |-> rg_slices[f[k]]]

\* C18: range merging does not depend on the order: when the parser accepts a
\* list of slices it accepts every permutation of the list, with the same
\* resulting slice.
C18_MergeOrderIndependent ==
    (rg_result.r = "OkSome" /\ Len(rg_slices) >= 2) =>
        \A f \in Permutations(1..Len(rg_slices)) :
            MergeAll(Reordered(f)[1], Tail(Reordered(f)))
                = [ok |-> TRUE, s |-> rg_result.s]

\* the slices a header lists after "bytes=", each parsed on its own
ListedSlices(header) ==
    LET items == Split(SubSeq(header, 7, Len(header)), ",")
    IN  [k \in 1..Len(items) |-> parse_slice(items[k])]

\* the listed slices are not one interval: a Last or AllFrom is among them, or
\* a byte between the lowest and the highest offset is in none of them
NotOneInterval(l) ==
    \/ \E k \in 1..Len(l) : l[k].v.t # "FromTo"
    \/ LET sl == [k \in 1..Len(l) |-> l[k].v]
       IN  \E x \in MinLo(sl)..MaxHi(sl) :
              \A k \in 1..Len(sl) : ~(sl[k].a <= x /\ x <= sl[k].b)

\* C19: a Range header listing several slices is rejected with a parse error
\* whenever the slices do not form one contiguous interval of bytes and whenever
\* a Last or AllFrom slice is combined with any other slice.
C19_GapsRejected ==
    (/\ rg_fed = 1 /\ Len(rg_input) = 1
     /\ IsUtf8(rg_input[1]) /\ StartsWith(rg_input[1], BytesPrefix)
     /\ LET l == ListedSlices(rg_input[1])
        IN  /\ Len(l) >= 2
            /\ \A k \in 1..Len(l) : l[k].ok
            /\ NotOneInterval(l))
        => (rg_pc # "panicked" /\ rg_result = RErr)

\* C27: merging FromTo slices never overflows u64: whatever bounds the slices
\* of a Range header have, u64::MAX included, every add_header call returns,
\* with the header accepted (Ok) or rejected (Err).
C27_MergeWithinU64 ==
    [][(rg_pc = "parsing" /\ rg_fed' = rg_fed + 1)
        => (rg_pc' = "parsing" /\ rg_result'.r \in {"OkSome", "Err"})]_vars

\* one of the headers added so far is a parse error on its own
SomeHeaderFailed ==
    \E k \in 1..rg_fed : parse_header(rg_input[k], debug_build).r = "Err"

\* C20, in a state: the result is an error once a second Range header was
\* added or a header failed to parse, and from_headers turns the error that
\* done() returns into InvalidRange.
C20_ErrorState ==
    /\ (rg_pc # "panicked" /\ (rg_fed >= 2 \/ SomeHeaderFailed)) => rg_result = RErr
    /\ (rg_pc = "done" /\ rg_result = RErr) =>
          \A method \in {"GET", "HEAD"} :
              from_headers(DefaultConfig,
                           MkRequest(method, IdentityOnly, rg_result, <<>>, None)).mode
                  = "InvalidRange"

\* C20: the Range parser's error state is absorbing: after a second Range
\* header, or after a header that fails to parse, no further header changes the
\* error, done() returns it and the request's outcome is InvalidRange.
C20_ErrorAbsorbing ==
    []C20_ErrorState /\ [][rg_result = RErr => rg_result' = RErr]_vars

C20_Witness ==
    /\ rg_pc = "done" /\ rg_fed = 3 /\ rg_result = RErr
    /\ \A k \in 1..3 : rg_input[k] = BytesPrefix \o <<"0", "-", "1">>

-----------------------------------------------------------------------------
(* Claims about the response decision, checked under SpecDecide *)

\* the metadata of the file at the base path
BaseMeta == fs[<<"", "">>].meta

\* C2: with no If-None-Match tag, a parsed If-Modified-Since date and a usable
\* modification time, the outcome is NotModified exactly when
\* mod_time <= if_modified_since; a file modified after the date is sent in full.
C2_NotModifiedIffNotNewer ==
    (/\ pb_pc = "done"
     /\ inp.mode \in {"Get", "Head"}
     /\ ~inp.range.some /\ inp.if_none = <<>> /\ inp.if_modified.some
     /\ cfg.last_modified /\ BaseMeta.mtime >= MIN_DATE)
        => (outcome.kind = "NotModified" <=> BaseMeta.mtime <= inp.if_modified.v[1])

\* C3: for an opened regular file that is no conditional hit, HEAD yields
\* FileHead, GET with a Range yields FileRange, GET without a Range yields File.
C3_OutcomeByMethodAndRange ==
    (pb_pc = "done" /\ outcome.kind \in {"FileHead", "File", "FileRange"})
        => outcome.kind = (IF inp.mode = "Head" THEN "FileHead"
                           ELSE IF inp.range.some THEN "FileRange" ELSE "File")

\* C4: every ContentRange resolve_range accepts has 0 <= start <= end < size
\* and content_length = end - start + 1, except (0,0,0) with content_length 0
\* for an empty file; and no subtraction of the computation goes below zero.
C4_AcceptedRangeWithinFile ==
    /\ pb_pc # "panicked"
    /\ outcome.head.range.some =>
          LET r == outcome.head.range.v[1]
              clen == outcome.head.content_length
          IN  \/ r.file_size = 0 /\ r.start = 0 /\ r.end = 0 /\ clen = 0
              \/ /\ r.file_size > 0
                 /\ 0 <= r.start /\ r.start <= r.end /\ r.end < r.file_size
                 /\ clen = r.end - r.start + 1

\* the metadata of the file the decision is made on: the negotiated variant
ServedMeta ==
    IF cfg.encoding_support = "Never" THEN BaseMeta ELSE fs[<<"", ".gz">>].meta

\* C15: If-None-Match takes precedence over If-Modified-Since: with a non-empty
\* parsed If-None-Match set the outcome is NotModified exactly when one of its
\* tags equals the file's ETag, whatever If-Modified-Since says.
C15_IfNoneMatchFirst ==
    (pb_pc = "done" /\ Len(inp.if_none) > 0) =>
        (outcome.kind = "NotModified"
            <=> \E k \in 1..Len(inp.if_none) : inp.if_none[k] = EtagOf(ServedMeta))

C15_Witness ==
    /\ pb_pc = "done" /\ inp.if_none = <<StaleEtag>>
    /\ cfg.last_modified /\ inp.if_modified = Some(ServedMeta.mtime)
    /\ ServedMeta.mtime >= MIN_DATE
    /\ outcome.kind = "File"

\* C11: a NotModified outcome has content_length 0 and its header iteration
\* yields only Last-Modified and ETag, each when present: no Content-Type,
\* Content-Encoding, Content-Range or Accept-Ranges, whatever the method, the
\* negotiated encoding, the Range header or the configuration.
C11_NotModifiedHeaders ==
    outcome.kind = "NotModified" =>
        /\ outcome.head.content_length = 0
        /\ headers(outcome.head) =
              (IF outcome.head.last_modified.some THEN <<"Last-Modified">> ELSE <<>>)
              \o (IF outcome.head.etag.some THEN <<"ETag">> ELSE <<>>)

C11_Witness ==
    /\ pb_pc = "done" /\ outcome.kind = "NotModified"
    /\ inp.mode = "Get" /\ inp.range.some /\ cfg.content_type
    /\ outcome.head.encoding = "Gzip"
    /\ headers(outcome.head) = <<"Last-Modified", "ETag">>

\* the ContentRange the resolution table gives a slice the table accepts
TableRange(sl, size) ==
    IF sl.t = "FromTo"
    THEN ContentRange(sl.a, IF sl.b < size - 1 THEN sl.b ELSE size - 1, size)
    ELSE IF sl.t = "AllFrom" THEN ContentRange(sl.a, size - 1, size)
    ELSE IF sl.a >= size
    THEN (IF size = 0 THEN ContentRange(0, 0, 0) ELSE ContentRange(0, size - 1, size))
    ELSE ContentRange(size - sl.a, size - 1, size)

\* C26: range resolution follows the table for every slice and file size.
\* Every request for the file that is no conditional hit gets an outcome:
\* InvalidRange for FromTo(s,e) and AllFrom(s) with s >= size, else a Head whose
\* ContentRange is the table's (content_length 0 when size = 0), and without a
\* Range no ContentRange and content_length = size.
C26_RangeTable ==
    (pb_pc \in {"done", "panicked"} /\ outcome.kind # "NotModified") =>
        LET size == ServedMeta.size
            sl == inp.range.v[1]
        IN  /\ pb_pc = "done"
            /\ IF ~inp.range.some
               THEN /\ outcome.kind \in {"File", "FileRange", "FileHead"}
                    /\ outcome.head.range = None
                    /\ outcome.head.content_length = size
               ELSE IF sl.t \in {"FromTo", "AllFrom"} /\ sl.a >= size
               THEN outcome.kind = "InvalidRange"
               ELSE /\ outcome.kind \in {"File", "FileRange", "FileHead"}
                    /\ outcome.head.range = Some(TableRange(sl, size))
                    /\ size = 0 => outcome.head.content_length = 0

\* what try_path returns on the served file for the same headers sent with GET
GetOutcome ==
    try_path(from_headers(cfg, [req EXCEPT !.method = "GET"]), cfg,
             fs[<<"", IF cfg.encoding_support = "Never" THEN "" ELSE ".gz">>],
             IF cfg.encoding_support = "Never" THEN "Identity" ELSE "Gzip",
             pb_ctype, debug_build)

\* C23: for the same headers, configuration and file, HEAD yields FileHead
\* exactly when GET yields a file, and the FileHead has the content_length and
\* the header sequence of the GET's Head, Content-Range included when a Range
\* was sent.
C23_HeadLikeGet ==
    (pb_pc = "done" /\ req.method = "HEAD") =>
        /\ outcome.kind = "FileHead" <=> GetOutcome.out.kind \in {"File", "FileRange"}
        /\ outcome.kind = "FileHead" =>
            /\ outcome.head.content_length = GetOutcome.out.head.content_length
            /\ headers(outcome.head) = headers(GetOutcome.out.head)
            /\ inp.range.some =>
                  \E k \in 1..Len(headers(outcome.head)) :
                      headers(outcome.head)[k] = "Content-Range"

C23_Witness ==
    /\ pb_pc = "done" /\ req.method = "HEAD" /\ outcome.kind = "FileHead"
    /\ inp.range.some /\ outcome.head.content_length = 2
    /\ outcome.head.encoding = "Gzip"
    /\ GetOutcome.out.kind = "File"

-----------------------------------------------------------------------------
(* Claims about the filesystem probe, checked under SpecProbe *)

\* C7: probe_file never returns an I/O error of kind NotFound: a target that
\* is missing when it is opened, or that turns out to be a directory, gives
\* Ok(NotFound); only other I/O errors are returned as Err.
C7_NeverErrNotFound == outcome.kind = "Err" => outcome.err # "NotFound"

\* C16: invalid requests short-circuit before any filesystem access: a method
\* other than exactly GET or HEAD gives InvalidMethod whatever the headers and
\* the disk hold, a GET or HEAD with a Range that does not parse or merge gives
\* InvalidRange whether or not the path exists.
C16_InvalidShortCircuit ==
    /\ (req.method \notin {"GET", "HEAD"} \/ req.range.r = "Err")
          => /\ pb_pc \in {"start", "parsed", "done"}
             /\ pb_child = "" /\ pb_idx = 0
    /\ (pb_pc = "done" /\ req.method \notin {"GET", "HEAD"})
          => outcome = OkOut("InvalidMethod")
    /\ (pb_pc = "done" /\ req.method \in {"GET", "HEAD"} /\ req.range.r = "Err")
          => outcome = OkOut("InvalidRange")

C16_Witness ==
    /\ pb_pc = "done" /\ req.method = "GET" /\ req.range.r = "Err"
    /\ fs[<<"", "">>].kind = "absent"
    /\ outcome = OkOut("InvalidRange")

\* the served path has no extension, or one the MIME table does not know
NoKnownExtension ==
    LET e == Extension(PathName)
    IN  ~e.some \/ ~get_mime_type_str(e.v[1]).some

\* C12: when the path's extension is absent or unknown to the MIME table, the
\* Content-Type of the file is exactly application/octet-stream.
C12_DefaultContentType ==
    (/\ pb_pc = "done" /\ outcome.kind \in {"FileHead", "File", "FileRange"}
     /\ outcome.head.content_type.some /\ NoKnownExtension)
        => outcome.head.content_type.v[1] = "application/octet-stream"

\* the indices of `ordered` an iteration yields, from position idx on
RECURSIVE YieldsFrom(_, _, _)
YieldsFrom(ordered, idx, identity) ==
    LET j == NextYield(ordered, idx, identity)
    IN  IF j = 4 THEN <<>>
        ELSE <<j>> \o YieldsFrom(ordered, j, identity \/ ordered[j] = "Identity")

\* the candidates of the variant search, in preference order
Candidates ==
    LET ys == YieldsFrom(inp.accept_encoding, 0, FALSE)
    IN  [k \in 1..Len(ys) |-> inp.accept_encoding[ys[k]]]

CandidateNode(k) == fs[<<pb_child, Suffix(Candidates[k])>>]

\* the candidate cannot be opened as a file: it is missing, or a directory
Unavailable(k) == CandidateNode(k).kind \in {"absent", "dir"}

\* C13, the result of the search: the candidate served is the first in
\* preference order that opens, with its encoding and its size; an error other
\* than ENOENT is that of the first candidate that is not missing; NotFound
\* means no candidate was there.
C13_SearchResult ==
    (pb_pc = "done" /\ pb_encs) =>
        /\ ~(outcome.kind = "Err" /\ outcome.err = "NotFound")
        /\ outcome.kind \in {"FileHead", "File", "FileRange", "NotModified"} =>
              \E k \in 1..Len(Candidates) :
                 /\ \A j \in 1..(k - 1) : Unavailable(j)
                 /\ CandidateNode(k).kind = "file"
                 /\ outcome.head.encoding = Candidates[k]
                 /\ (~inp.range.some /\ outcome.kind # "NotModified")
                       => outcome.head.content_length = CandidateNode(k).meta.size
        /\ outcome.kind = "Err" =>
              \E k \in 1..Len(Candidates) :
                 /\ \A j \in 1..(k - 1) : Unavailable(j)
                 /\ CandidateNode(k).kind = "denied"
        /\ outcome.kind = "NotFound" =>
              \A k \in 1..Len(Candidates) : Unavailable(k)

\* C13, the steps of the search: it moves from a candidate only when that one
\* is missing, and then to the next one in preference order.
C13_SearchStep ==
    (pb_pc = "open" /\ pb_encs /\ pb_it'.cur # pb_it.cur) =>
        LET ys == YieldsFrom(inp.accept_encoding, 0, FALSE)
        IN  \E n \in 1..(Len(ys) - 1) :
               /\ ys[n] = pb_it.cur /\ ys[n + 1] = pb_it'.cur
               /\ Unavailable(n)
               /\ pb_pc' = "open" /\ outcome' = outcome

IndexNode(n) == fs[<<cfg.index_files[n], "">>]

\* the n-th index name is the first that is there
FirstThere(n) == \A j \in 1..(n - 1) : IndexNode(j).kind = "absent"

-----------------------------------------------------------------------------
(* Claims about the body reader, checked under SpecBody *)

\* the file offsets the response promises: content_length bytes from the start
\* of the range, or of the file
Expected ==
    LET start == IF outcome.head.range.some THEN outcome.head.range.v[1].start ELSE 0
    IN  [k \in 1..outcome.head.content_length |-> start + k - 1]

IsPrefix(s, t) == Len(s) <= Len(t) /\ SubSeq(t, 1, Len(s)) = s

Streaming == pb_pc = "done" /\ outcome.kind \in {"File", "FileRange"}

ReturnedZero == last_ret.called /\ last_ret.ok /\ last_ret.n = 0

\* C8: with a writer that accepts every offered byte, once read_chunk returns 0
\* the bytes delivered are content_length() many and are exactly
\* file[start .. start + content_length) in order.
C8_ExactBytesDelivered ==
    (Streaming /\ writer = "full" /\ ReturnedZero) => delivered = Expected

C8_Witness ==
    /\ Streaming /\ writer = "full" /\ ReturnedZero
    /\ outcome.head.range.some /\ outcome.head.range.v[1].start > 0
    /\ Len(delivered) >= 2 /\ delivered = Expected

\* C9: with a writer that accepts only part of each offered chunk, every call
\* leaves the file position just after the bytes accepted (rewound by r - k),
\* the accepted bytes repeat none and skip none, and repeated calls eventually
\* deliver all content_length bytes.
C9_PartialWritesResume ==
    /\ []((Streaming /\ writer = "partial") => IsPrefix(delivered, Expected))
    /\ [][(Streaming /\ writer = "partial")
            => fw'.pos = fw.pos + (Len(delivered') - Len(delivered))]_vars
    /\ ((Streaming /\ writer = "partial") ~> (delivered = Expected))

C9_Witness ==
    /\ Streaming /\ writer = "partial"
    /\ Len(delivered) >= 3 /\ delivered = Expected
    /\ last_ret.called /\ last_ret.ok /\ fw.bytes_left = 0

\* C10: when the writer returns an error, read_chunk returns the error and
\* leaves the reader as it was: the file position is back where it was before
\* the call and bytes_left is not decremented.
C10_WriterErrorKeepsState ==
    [][(Streaming /\ last_ret'.called /\ ~last_ret'.ok)
        => (fw' = fw /\ delivered' = delivered)]_vars

C10_Witness ==
    /\ Streaming /\ last_ret.called /\ ~last_ret.ok
    /\ delivered # <<>> /\ fw.bytes_left > 0 /\ fw.pos = delivered[Len(delivered)] + 1


\* C28: for every File/FileRange outcome bytes_left is content_length right
\* after FileWrapper::new (the range length with a ContentRange, the file size
\* without), and after any read_chunk calls it is content_length minus the
\* number of bytes the writer has accepted.
C28_BytesLeftIsLength ==
    Streaming => fw.bytes_left = outcome.head.content_length - Len(delivered)

\* C29: read_chunk returns Ok(0) only when bytes_left = 0, so a caller that
\* stops at the first Ok(0) has delivered content_length bytes, whatever the
\* writer accepts and the file read returns.
C29_ZeroOnlyWhenComplete ==
    (Streaming /\ ReturnedZero) =>
        (fw.bytes_left = 0 /\ Len(delivered) = outcome.head.content_length)

-----------------------------------------------------------------------------
(* Claims about the ETag text and If-None-Match, checked under SpecEtag *)

\* the comma-separated tokens of the request's If-None-Match headers, in order
RECURSIVE TokensOf(_)
TokensOf(hs) ==
    IF hs = <<>> THEN <<>> ELSE Split(Head(hs), ",") \o TokensOf(Tail(hs))

\* the digests the requests of the model name
AllTags == Etags \cup { NearEtag(e) : e \in Etags }

\* C21: the ETag text round-trips.  A request whose If-None-Match is the text
\* the server sends parses to exactly the server's 12 bytes; two digests have
\* the same text iff they are equal; and, for a request with If-None-Match
\* alone, the response is NotModified exactly when one of the client's tags,
\* spaces around it aside, is the text of the ETag the server sends.
C21_EtagRoundTrip ==
    /\ \A a \in AllTags, b \in AllTags : (Etag_fmt(a) = Etag_fmt(b)) <=> (a = b)
    /\ et_pc = "done" =>
        /\ (et_input = <<et_sent>> => et_etags = <<et_server>>)
        /\ et_modified = None =>
            (et_hit <=> \E k \in 1..Len(TokensOf(et_input)) :
                            Trim(TokensOf(et_input)[k]) = et_sent)

C21_Witness ==
    /\ et_pc = "done" /\ et_input = <<et_sent>> /\ et_hit
    /\ et_etags = <<et_server>> /\ et_server = [k \in 1..12 |-> 255]

Base64Alphabet == { CHARS[k] : k \in 1..Len(CHARS) }

\* a token that, after leading spaces, is W/" + 16 url-safe base64 characters
\* + " and then nothing but spaces
WellFormed(token) ==
    LET t == TrimRight(TrimLeft(token))
    IN  /\ Len(t) = 20
        /\ SubSeq(t, 1, 3) = <<"W", "/", "\"">> /\ t[20] = "\""
        /\ \A k \in 4..19 : t[k] \in Base64Alphabet

\* C22: If-None-Match keeps only well-formed weak tags.  The parsed tags are
\* those of the well-formed tokens, one each and in order, whatever the other
\* tokens are; a request all of whose tokens are dropped is answered as one
\* without If-None-Match; and a NotModified given on If-None-Match comes from
\* a well-formed token that is the server's tag.
C22_OnlyWellFormedTags ==
    et_pc = "done" =>
        LET toks == TokensOf(et_input)
            kept == SelectSeq(toks, WellFormed)
        IN  /\ Len(et_etags) = Len(kept)
            /\ \A k \in 1..Len(kept) :
                  k <= Len(et_etags) => Etag_fmt(et_etags[k]) = Trim(kept[k])
            /\ kept = <<>> =>
                  (et_hit <=> NotModifiedSince(et_modified, Some(MIN_DATE)))
            /\ (kept # <<>> /\ et_hit) =>
                  \E k \in 1..Len(kept) : Trim(kept[k]) = et_sent

C22_Witness ==
    /\ et_pc = "done" /\ et_hit /\ Len(TokensOf(et_input)) = 2
    /\ Len(et_etags) = 1 /\ ~WellFormed(TokensOf(et_input)[1])
    /\ TokensOf(et_input)[1] = Tail(Tail(et_sent))


-----------------------------------------------------------------------------
(* Claims about the response headers, checked under SpecHeaders *)

\* the metadata of the file the response is made from
HeadersMeta ==
    IF cfg.encoding_support = "Never" THEN BaseMeta ELSE fs[<<"", ".gz">>].meta

\* the header names in their fixed order, each with the condition it is sent on
HeaderOrder ==
    << [name |-> "Last-Modified",
        on |-> cfg.last_modified /\ HeadersMeta.mtime >= MIN_DATE],
       [name |-> "ETag", on |-> cfg.etag],
       [name |-> "Content-Encoding", on |-> outcome.head.encoding # "Identity"],
       [name |-> "Accept-Ranges", on |-> TRUE],
       [name |-> "Content-Range", on |-> inp.range.some],
       [name |-> "Content-Type", on |-> cfg.content_type] >>

IsSentOn(h) == h.on

\* the names of the headers that apply to the response, in the fixed order
ApplicableHeaders ==
    LET sel == SelectSeq(HeaderOrder, IsSentOn)
    IN  [k \in 1..Len(sel) |-> sel[k].name]

\* the response has a Head that is not NotModified
HasFullHead == pb_pc = "done" /\ outcome.kind \in {"File", "FileRange", "FileHead"}

\* C24: for a response that is not NotModified, what the header iterator has
\* yielded is at every moment a prefix of Last-Modified, ETag, Content-Encoding,
\* Accept-Ranges, Content-Range, Content-Type restricted to the headers that
\* apply; when it first returns None it has yielded all of them, Accept-Ranges
\* among them and Content-Length not; and from then on every call returns None.
C24_HeaderOrder ==
    /\ [](HasFullHead =>
            /\ IsPrefix(hi_out, ApplicableHeaders)
            /\ hi_nones > 0 => hi_out = ApplicableHeaders
            /\ hi_nones > 0 => \E k \in 1..Len(hi_out) : hi_out[k] = "Accept-Ranges"
            /\ \A k \in 1..Len(hi_out) : hi_out[k] # "Content-Length")
    /\ [][(HasFullHead /\ hi_nones > 0) =>
            (hi_out' = hi_out /\ hi_nones' >= hi_nones)]_vars

C24_Witness ==
    /\ HasFullHead /\ hi_nones = 2
    /\ hi_out = <<"Last-Modified", "ETag", "Content-Encoding", "Accept-Ranges",
                  "Content-Range", "Content-Type">>

====
